---- MODULE Spec2Model ----
(***************************************************************************)
(* Model of the rocm-kpack runtime: the archive reader (kpack_open,        *)
(* kpack_get_kernel, kpack_close) and the kernel cache                     *)
(* (kpack_cache_create, kpack_load_code_object, kpack_cache_destroy).      *)
(*                                                                         *)
(* Paths are sequences of components (<<"/", "d", "a.kpack">>); an         *)
(* environment string is a sequence of characters, each of which is the    *)
(* separator ":" or a path component.  A file is its byte sequence plus    *)
(* the object the MessagePack library decodes from its TOC region.         *)
(***************************************************************************)
EXTENDS Integers, Sequences, FiniteSets, TLC

VARIABLES env, requests, cache, handles, th, ncalls

vars == <<env, requests, cache, handles, th, ncalls>>

(***************************************************************************)
(* Bounds of the model.                                                    *)
(***************************************************************************)
NumThreads == 2
MaxCalls == 2
MaxHandles == 2

Threads == 1..NumThreads

(***************************************************************************)
(* Error codes (kpack_types.h and the loader-specific codes).  Only their  *)
(* identity matters here, so each code is its name.                        *)
(***************************************************************************)
KPACK_SUCCESS == "SUCCESS"
KPACK_ERROR_INVALID_ARGUMENT == "INVALID_ARGUMENT"
KPACK_ERROR_FILE_NOT_FOUND == "FILE_NOT_FOUND"
KPACK_ERROR_INVALID_FORMAT == "INVALID_FORMAT"
KPACK_ERROR_UNSUPPORTED_VERSION == "UNSUPPORTED_VERSION"
KPACK_ERROR_KERNEL_NOT_FOUND == "KERNEL_NOT_FOUND"
KPACK_ERROR_DECOMPRESSION_FAILED == "DECOMPRESSION_FAILED"
KPACK_ERROR_OUT_OF_MEMORY == "OUT_OF_MEMORY"
KPACK_ERROR_NOT_IMPLEMENTED == "NOT_IMPLEMENTED"
KPACK_ERROR_IO_ERROR == "IO_ERROR"
KPACK_ERROR_MSGPACK_PARSE_FAILED == "MSGPACK_PARSE_FAILED"
KPACK_ERROR_INVALID_METADATA == "INVALID_METADATA"
KPACK_ERROR_ARCHIVE_NOT_FOUND == "ARCHIVE_NOT_FOUND"
KPACK_ERROR_ARCH_NOT_FOUND == "ARCH_NOT_FOUND"
KPACK_ERROR_PATH_DISCOVERY_FAILED == "PATH_DISCOVERY_FAILED"
\* An exception that leaves an extern "C" function: the process terminates.
EXCEPTION == "EXCEPTION"

KPACK_MAGIC == <<75, 80, 65, 75>>
KPACK_MAGIC_SIZE == 4
KPACK_CURRENT_VERSION == 1
KPACK_COMPRESSION_NOOP == 0
KPACK_COMPRESSION_ZSTD_PER_KERNEL == 1
HEADER_SIZE == 16

(***************************************************************************)
(* Helpers on sequences and bytes.                                         *)
(***************************************************************************)
Min(a, b) == IF a < b THEN a ELSE b
Max(a, b) == IF a > b THEN a ELSE b

Range(s) == {s[i] : i \in DOMAIN s}

\* The n bytes at 0-based offset off of bytes (as many as the file has).
BytesAt(bytes, off, n) ==
  IF off >= Len(bytes) THEN <<>>
  ELSE SubSeq(bytes, off + 1, Min(off + n, Len(bytes)))

RECURSIVE LE(_, _)
\* The little-endian encoding of v on n bytes.
LE(v, n) == IF n = 0 THEN <<>> ELSE <<v % 256>> \o LE(v \div 256, n - 1)

RECURSIVE FromLE(_)
\* The unsigned integer a little-endian byte sequence stands for (memcpy into
\* a uint32_t / uint64_t on a little-endian host).
FromLE(b) == IF b = <<>> THEN 0 ELSE b[1] + 256 * FromLE(Tail(b))

Zeros(n) == [i \in 1..n |-> 0]

(***************************************************************************)
(* MessagePack objects, as msgpack::object presents them: a type tag and   *)
(* a value; a MAP is a sequence of key/value pairs.  Inv stands for bytes  *)
(* on which msgpack::unpack throws.                                        *)
(***************************************************************************)
MStr(s) == [type |-> "STR", v |-> s]
MInt(n) == [type |-> "INT", v |-> n]
MArr(s) == [type |-> "ARRAY", v |-> s]
MMap(s) == [type |-> "MAP", v |-> s]
KV(k, val) == [key |-> MStr(k), val |-> val]
Inv == [type |-> "INVALID", v |-> 0]
NoObj == [type |-> "ABSENT", v |-> 0]

RECURSIVE find_key(_, _)
\* The value of the first pair of the map whose key is the string key.
find_key(map, key) ==
  IF map = <<>> THEN NoObj
  ELSE IF Head(map).key.type = "STR" /\ Head(map).key.v = key
       THEN Head(map).val
       ELSE find_key(Tail(map), key)

(***************************************************************************)
(* The files of the machine.  Each archive is its bytes (16-byte header,   *)
(* payload, TOC region) and the object msgpack::unpack yields on the TOC   *)
(* region.                                                                 *)
(***************************************************************************)
Header(magic, version, toc_offset) == magic \o LE(version, 4) \o LE(toc_offset, 8)

KM(ordinal, size) ==
  MMap(<<KV("type", MStr("hsaco")), KV("ordinal", MInt(ordinal)),
         KV("original_size", MInt(size))>>)
Blob(offset, size) == MMap(<<KV("offset", MInt(offset)), KV("size", MInt(size))>>)

\* none scheme, gfx_arches g1 g2; bin1/g2 is blob 0 (1 byte), bin1/g1 is
\* blob 1 (2 bytes); the TOC region is the last byte of the file.
FileA ==
  [bytes |-> Header(KPACK_MAGIC, 1, 19) \o <<21>> \o <<11, 12>> \o <<99>>,
   toc_obj |-> MMap(<<
     KV("compression_scheme", MStr("none")),
     KV("gfx_arches", MArr(<<MStr("g1"), MStr("g2")>>)),
     KV("blobs", MArr(<<Blob(16, 1), Blob(17, 2)>>)),
     KV("toc", MMap(<<KV("bin1", MMap(<<KV("g1", KM(1, 2)), KV("g2", KM(0, 1))>>))>>))
   >>)]

\* none scheme, gfx_arches g1 g3; it has g1 only for bin2, and g3 for bin1.
FileB ==
  [bytes |-> Header(KPACK_MAGIC, 1, 19) \o <<41>> \o <<51, 52>> \o <<99>>,
   toc_obj |-> MMap(<<
     KV("compression_scheme", MStr("none")),
     KV("gfx_arches", MArr(<<MStr("g1"), MStr("g3")>>)),
     KV("blobs", MArr(<<Blob(16, 1), Blob(17, 2)>>)),
     KV("toc", MMap(<<KV("bin2", MMap(<<KV("g1", KM(0, 1))>>)),
                      KV("bin1", MMap(<<KV("g3", KM(1, 2))>>))>>))
   >>)]

\* A file with a wrong magic.
FileC == [bytes |-> Header(<<88, 88, 88, 88>>, 1, 16) \o <<99>>, toc_obj |-> Inv]

\* zstd-per-kernel scheme, gfx_arches g1; the framed blob holds one frame of
\* one byte for bin1/g1, which decodes to 2 bytes.
FileZ ==
  [bytes |-> Header(KPACK_MAGIC, 1, 25) \o LE(1, 4) \o LE(1, 4) \o <<201>> \o <<99>>,
   toc_obj |-> MMap(<<
     KV("compression_scheme", MStr("zstd-per-kernel")),
     KV("gfx_arches", MArr(<<MStr("g1")>>)),
     KV("zstd_offset", MInt(16)),
     KV("zstd_size", MInt(9)),
     KV("toc", MMap(<<KV("bin1", MMap(<<KV("g1", KM(0, 2))>>))>>))
   >>)]

\* What the Zstd library decodes from a frame; any other frame is an error.
ZstdTable == (<<201>> :> <<31, 32>>)

\* A file of version 2, and a file whose TOC region is not MessagePack.
FileV == [bytes |-> Header(KPACK_MAGIC, 2, 16) \o <<99>>, toc_obj |-> MMap(<<>>)]
FileP == [bytes |-> Header(KPACK_MAGIC, 1, 16) \o <<99>>, toc_obj |-> Inv]

\* none scheme, gfx_arches g1 g2; the blob of bin1/g1 runs past the end of
\* the file.
FileT ==
  [bytes |-> Header(KPACK_MAGIC, 1, 19) \o <<61>> \o <<62, 63>> \o <<99>>,
   toc_obj |-> MMap(<<
     KV("compression_scheme", MStr("none")),
     KV("gfx_arches", MArr(<<MStr("g1"), MStr("g2")>>)),
     KV("blobs", MArr(<<Blob(16, 1), Blob(18, 4)>>)),
     KV("toc", MMap(<<KV("bin1", MMap(<<KV("g1", KM(1, 4)), KV("g2", KM(0, 1))>>))>>))
   >>)]

\* An empty file, a file that ends inside the header, a file with a wrong
\* magic and a wrong version, a file of version 2 whose TOC offset is past
\* the end, and a file of version 1 whose TOC offset is the file size.
FileE == [bytes |-> <<>>, toc_obj |-> Inv]
FileS == [bytes |-> KPACK_MAGIC \o LE(1, 4), toc_obj |-> Inv]
FileCV == [bytes |-> Header(<<88, 88, 88, 88>>, 2, 99) \o <<99>>, toc_obj |-> Inv]
FileVO == [bytes |-> Header(KPACK_MAGIC, 2, 99) \o <<99>>, toc_obj |-> Inv]
FileO == [bytes |-> Header(KPACK_MAGIC, 1, 17) \o <<99>>, toc_obj |-> Inv]

\* A well-formed header and MessagePack map whose TOC has no
\* compression_scheme and no blobs; one whose zstd-per-kernel TOC has no
\* zstd_offset and no zstd_size; one whose none TOC has a blob with a string
\* for its offset.
FileNS ==
  [bytes |-> Header(KPACK_MAGIC, 1, 16) \o <<99>>,
   toc_obj |-> MMap(<<KV("gfx_arches", MArr(<<MStr("g1")>>))>>)]
FileNZ ==
  [bytes |-> Header(KPACK_MAGIC, 1, 16) \o <<99>>,
   toc_obj |-> MMap(<<KV("compression_scheme", MStr("zstd-per-kernel")),
                      KV("gfx_arches", MArr(<<MStr("g1")>>))>>)]
FileBT ==
  [bytes |-> Header(KPACK_MAGIC, 1, 17) \o <<71>> \o <<99>>,
   toc_obj |-> MMap(<<KV("compression_scheme", MStr("none")),
                      KV("blobs", MArr(<<MMap(<<KV("offset", MStr("16")),
                                                KV("size", MInt(1))>>)>>))>>)]


\* A zstd-per-kernel TOC for the framed blob at offset 16.
ZToc(zstd_size) ==
  MMap(<<KV("compression_scheme", MStr("zstd-per-kernel")),
         KV("gfx_arches", MArr(<<MStr("g1")>>)),
         KV("zstd_offset", MInt(16)),
         KV("zstd_size", MInt(zstd_size)),
         KV("toc", MMap(<<KV("bin1", MMap(<<KV("g1", KM(0, 2))>>))>>))>>)

\* zstd-per-kernel archives: two frames of one byte each; the bytes of
\* FileZ with a blob region that ends two bytes after the file; a frame
\* count of 1,048,577; a blob that ends inside the length prefix of its
\* frame; a frame whose payload ends after the blob; a blob shorter than
\* the count prefix.
FileZ2 ==
  [bytes |-> Header(KPACK_MAGIC, 1, 30) \o LE(2, 4) \o LE(1, 4) \o <<201>>
               \o LE(1, 4) \o <<202>> \o <<99>>,
   toc_obj |-> ZToc(14)]
FileZE ==
  [bytes |-> Header(KPACK_MAGIC, 1, 25) \o LE(1, 4) \o LE(1, 4) \o <<201>> \o <<99>>,
   toc_obj |-> ZToc(12)]
FileZK ==
  [bytes |-> Header(KPACK_MAGIC, 1, 20) \o LE(1048577, 4) \o <<99>>, toc_obj |-> ZToc(4)]
FileZF ==
  [bytes |-> Header(KPACK_MAGIC, 1, 22) \o LE(1, 4) \o <<1, 0>> \o <<99>>,
   toc_obj |-> ZToc(6)]
FileZP ==
  [bytes |-> Header(KPACK_MAGIC, 1, 25) \o LE(1, 4) \o LE(5, 4) \o <<201>> \o <<99>>,
   toc_obj |-> ZToc(9)]
FileZS ==
  [bytes |-> Header(KPACK_MAGIC, 1, 18) \o <<1, 0>> \o <<99>>, toc_obj |-> ZToc(2)]

\* none scheme, gfx_arches g1 g2; the kernel of bin1/g1 has length zero
\* (blob 0), the kernel of bin1/g2 is blob 1 (1 byte).
FileK ==
  [bytes |-> Header(KPACK_MAGIC, 1, 17) \o <<81>> \o <<99>>,
   toc_obj |-> MMap(<<
     KV("compression_scheme", MStr("none")),
     KV("gfx_arches", MArr(<<MStr("g1"), MStr("g2")>>)),
     KV("blobs", MArr(<<Blob(16, 0), Blob(16, 1)>>)),
     KV("toc", MMap(<<KV("bin1", MMap(<<KV("g1", KM(0, 0)), KV("g2", KM(1, 1))>>))>>))
   >>)]

PathA == <<"/", "d", "a.kpack">>
PathK == <<"/", "d", "k.kpack">>
PathE == <<"/", "d", "e.kpack">>
PathS == <<"/", "d", "s.kpack">>
PathCV == <<"/", "d", "cv.kpack">>
PathVO == <<"/", "d", "vo.kpack">>
PathO == <<"/", "d", "o.kpack">>
PathT == <<"/", "d", "t.kpack">>
PathV == <<"/", "d", "v.kpack">>
PathP == <<"/", "d", "p.kpack">>
PathZ == <<"/", "d", "z.kpack">>
PathB == <<"/", "d", "b.kpack">>
PathC == <<"/", "d", "c.kpack">>
PathM == <<"/", "d", "m.kpack">>
PathNS == <<"/", "d", "ns.kpack">>
PathNZ == <<"/", "d", "nz.kpack">>
PathBT == <<"/", "d", "bt.kpack">>
PathZ2 == <<"/", "d", "z2.kpack">>
PathZE == <<"/", "d", "ze.kpack">>
PathZK == <<"/", "d", "zk.kpack">>
PathZF == <<"/", "d", "zf.kpack">>
PathZP == <<"/", "d", "zp.kpack">>
PathZS == <<"/", "d", "zs.kpack">>
\* A symbolic link to PathA.
PathL == <<"/", "l", "a.kpack">>

\* The regular files, by canonical path.
FS ==
  (PathA :> FileA) @@ (PathB :> FileB) @@ (PathC :> FileC) @@ (PathZ :> FileZ)
    @@ (PathV :> FileV) @@ (PathP :> FileP) @@ (PathT :> FileT)
    @@ (PathE :> FileE) @@ (PathS :> FileS) @@ (PathCV :> FileCV)
    @@ (PathVO :> FileVO) @@ (PathO :> FileO)
    @@ (PathNS :> FileNS) @@ (PathNZ :> FileNZ) @@ (PathBT :> FileBT)
    @@ (PathZ2 :> FileZ2) @@ (PathZE :> FileZE) @@ (PathZK :> FileZK)
    @@ (PathZF :> FileZF) @@ (PathZP :> FileZP) @@ (PathZS :> FileZS)
    @@ (PathK :> FileK)
\* The symbolic links.
Links == (PathL :> PathA)

(***************************************************************************)
(* std::filesystem, as far as the loader uses it.                          *)
(***************************************************************************)
\* The working directory of the process, against which the operating system
\* resolves a relative path.
Cwd == <<"/", "d">>

is_absolute(p) == Len(p) > 0 /\ Head(p) = "/"
parent_path(p) == IF Len(p) = 0 THEN p ELSE SubSeq(p, 1, Len(p) - 1)
FollowLinks(p) == IF p \in DOMAIN Links THEN Links[p] ELSE p
\* The file system object a path names.
Target(p) == FollowLinks(IF is_absolute(p) THEN p ELSE Cwd \o p)
weakly_canonical(p) == Target(p)

\* fs::exists(path) && fs::is_regular_file(path)
file_exists(path) == Target(path) \in DOMAIN FS

\* fs::canonical(path), or the path itself when canonical() throws because
\* nothing is there.
get_canonical_path(path) == IF Target(path) \in DOMAIN FS THEN Target(path) ELSE path

\* Resolve a relative path against the directory of base_path.
resolve_path(base_path, relative_path) ==
  IF is_absolute(relative_path) THEN relative_path
  ELSE weakly_canonical(parent_path(base_path) \o relative_path)

(***************************************************************************)
(* archive.cpp: validate_header.                                           *)
(***************************************************************************)
\* A validation that looks at the version before the magic.
validate_header_VersionFirst(bytes) ==
  LET header == BytesAt(bytes, 0, HEADER_SIZE)
      ver == FromLE(SubSeq(header, 5, 8))
      toc_off == FromLE(SubSeq(header, 9, 16))
  IN IF Len(header) # HEADER_SIZE
       THEN [err |-> KPACK_ERROR_INVALID_FORMAT, version |-> 0, toc_offset |-> 0]
     ELSE IF ver # KPACK_CURRENT_VERSION
       THEN [err |-> KPACK_ERROR_UNSUPPORTED_VERSION, version |-> ver, toc_offset |-> 0]
     ELSE IF SubSeq(header, 1, KPACK_MAGIC_SIZE) # KPACK_MAGIC
       THEN [err |-> KPACK_ERROR_INVALID_FORMAT, version |-> 0, toc_offset |-> 0]
     ELSE [err |-> KPACK_SUCCESS, version |-> ver, toc_offset |-> toc_off]

validate_header(bytes) ==
  LET header == BytesAt(bytes, 0, HEADER_SIZE)
      ver == FromLE(SubSeq(header, 5, 8))
      toc_off == FromLE(SubSeq(header, 9, 16))
  IN IF Len(header) # HEADER_SIZE
       THEN [err |-> KPACK_ERROR_INVALID_FORMAT, version |-> 0, toc_offset |-> 0]
     ELSE IF SubSeq(header, 1, KPACK_MAGIC_SIZE) # KPACK_MAGIC
       THEN [err |-> KPACK_ERROR_INVALID_FORMAT, version |-> 0, toc_offset |-> 0]
     ELSE IF ver # KPACK_CURRENT_VERSION
       THEN [err |-> KPACK_ERROR_UNSUPPORTED_VERSION, version |-> ver, toc_offset |-> 0]
     ELSE [err |-> KPACK_SUCCESS, version |-> ver, toc_offset |-> toc_off]

(***************************************************************************)
(* toc_parser.cpp: parse_toc.  A field the TOC leaves out keeps the value  *)
(* the object had before: zero for the members of the archive (it is       *)
(* value-initialized), indeterminate for the locals blob and km, which is  *)
(* recorded in the set flags.                                              *)
(***************************************************************************)
IsInt(o) == o.type = "INT"
Present(o) == o.type # "ABSENT"
\* obj->as<uint64_t>() throws on anything but an integer.
AsThrows(o) == Present(o) /\ ~IsInt(o)
AsUInt(o) == IF IsInt(o) THEN o.v ELSE 0

RECURSIVE StrElems(_)
\* The strings of an array, in order; elements of another type are skipped.
StrElems(arr) ==
  IF arr = <<>> THEN <<>>
  ELSE IF Head(arr).type = "STR" THEN <<Head(arr).v>> \o StrElems(Tail(arr))
       ELSE StrElems(Tail(arr))

BlobInfo(m) ==
  LET offset_obj == find_key(m, "offset")
      size_obj == find_key(m, "size")
  IN [offset |-> AsUInt(offset_obj), size |-> AsUInt(size_obj),
      set |-> Present(offset_obj) /\ Present(size_obj)]

RECURSIVE ParseBlobs(_)
ParseBlobs(arr) ==
  IF arr = <<>> THEN <<>>
  ELSE IF Head(arr).type = "MAP"
       THEN <<BlobInfo(Head(arr).v)>> \o ParseBlobs(Tail(arr))
       ELSE ParseBlobs(Tail(arr))

BlobsThrow(arr) ==
  \E i \in DOMAIN arr :
     /\ arr[i].type = "MAP"
     /\ \/ AsThrows(find_key(arr[i].v, "offset"))
        \/ AsThrows(find_key(arr[i].v, "size"))

KernelMetadata(m) ==
  LET ordinal_obj == find_key(m, "ordinal")
      size_obj == find_key(m, "original_size")
      type_obj == find_key(m, "type")
  IN [type |-> IF type_obj.type = "STR" THEN type_obj.v ELSE "",
      ordinal |-> AsUInt(ordinal_obj),
      original_size |-> AsUInt(size_obj),
      set |-> Present(ordinal_obj) /\ Present(size_obj)]

RECURSIVE ParseArchMap(_, _)
\* toc[binary][arch] = km for every string key whose value is a map; a later
\* pair with the same key overwrites an earlier one.
ParseArchMap(arch_map, acc) ==
  IF arch_map = <<>> THEN acc
  ELSE LET kv == Head(arch_map)
       IN IF kv.key.type = "STR" /\ kv.val.type = "MAP"
          THEN ParseArchMap(Tail(arch_map),
                 [a \in DOMAIN acc \cup {kv.key.v} |->
                    IF a = kv.key.v THEN KernelMetadata(kv.val.v) ELSE acc[a]])
          ELSE ParseArchMap(Tail(arch_map), acc)

ArchMapThrows(arch_map) ==
  \E j \in DOMAIN arch_map :
     /\ arch_map[j].key.type = "STR" /\ arch_map[j].val.type = "MAP"
     /\ \/ AsThrows(find_key(arch_map[j].val.v, "ordinal"))
        \/ AsThrows(find_key(arch_map[j].val.v, "original_size"))

RECURSIVE ParseTocMap(_, _)
ParseTocMap(toc_map, acc) ==
  IF toc_map = <<>> THEN acc
  ELSE LET kv == Head(toc_map)
           old == IF kv.key.v \in DOMAIN acc THEN acc[kv.key.v] ELSE <<>>
           new == ParseArchMap(kv.val.v, old)
       IN IF kv.key.type = "STR" /\ kv.val.type = "MAP" /\ DOMAIN new # {}
          THEN ParseTocMap(Tail(toc_map),
                 [b \in DOMAIN acc \cup {kv.key.v} |->
                    IF b = kv.key.v THEN new ELSE acc[b]])
          ELSE ParseTocMap(Tail(toc_map), acc)

TocMapThrows(toc_map) ==
  \E i \in DOMAIN toc_map :
     /\ toc_map[i].key.type = "STR" /\ toc_map[i].val.type = "MAP"
     /\ ArchMapThrows(toc_map[i].val.v)

\* The fields of a value-initialized kpack_archive.
EmptyToc ==
  [err |-> KPACK_SUCCESS, compression_scheme |-> KPACK_COMPRESSION_NOOP,
   gfx_arches |-> <<>>, blobs |-> <<>>, zstd_offset |-> 0, zstd_size |-> 0,
   toc |-> <<>>]

TocError(e) == [EmptyToc EXCEPT !.err = e]

parse_toc(file, toc_offset, file_size) ==
  LET obj == file.toc_obj
      map == obj.v
      sv == find_key(map, "compression_scheme")
      scheme == IF sv.type = "STR" /\ sv.v = "zstd-per-kernel"
                THEN KPACK_COMPRESSION_ZSTD_PER_KERNEL
                ELSE KPACK_COMPRESSION_NOOP
      av == find_key(map, "gfx_arches")
      bv == find_key(map, "blobs")
      zo == find_key(map, "zstd_offset")
      zs == find_key(map, "zstd_size")
      tv == find_key(map, "toc")
      noop == scheme = KPACK_COMPRESSION_NOOP
  IN IF toc_offset >= file_size THEN TocError(KPACK_ERROR_INVALID_FORMAT)
     ELSE IF obj.type = "INVALID" THEN TocError(KPACK_ERROR_MSGPACK_PARSE_FAILED)
     ELSE IF obj.type # "MAP" THEN TocError(KPACK_ERROR_MSGPACK_PARSE_FAILED)
     ELSE IF \/ noop /\ bv.type = "ARRAY" /\ BlobsThrow(bv.v)
             \/ ~noop /\ (AsThrows(zo) \/ AsThrows(zs))
             \/ tv.type = "MAP" /\ TocMapThrows(tv.v)
       THEN TocError(EXCEPTION)
     ELSE [err |-> KPACK_SUCCESS,
           compression_scheme |-> scheme,
           gfx_arches |-> IF av.type = "ARRAY" THEN StrElems(av.v) ELSE <<>>,
           blobs |-> IF noop /\ bv.type = "ARRAY" THEN ParseBlobs(bv.v) ELSE <<>>,
           zstd_offset |-> IF noop THEN 0 ELSE AsUInt(zo),
           zstd_size |-> IF noop THEN 0 ELSE AsUInt(zs),
           toc |-> IF tv.type = "MAP" THEN ParseTocMap(tv.v, <<>>) ELSE <<>>]

(***************************************************************************)
(* compression.cpp: build_zstd_frame_index.                                *)
(***************************************************************************)
MAX_KERNELS == 1048576
U32 == 4

RECURSIVE ParseFrames(_, _, _, _)
\* The frame headers from 0-based offset in the blob on; left is the number
\* of frames still to parse.  The result is <<the frames, FALSE>>, or
\* <<_, TRUE>> on a bounds violation.
ParseFrames(blob, offset, left, acc) ==
  IF left = 0 THEN <<acc, FALSE>>
  ELSE IF offset + U32 > Len(blob) THEN <<acc, TRUE>>
  ELSE LET frame_size == FromLE(BytesAt(blob, offset, U32))
       IN IF offset + U32 + frame_size > Len(blob) THEN <<acc, TRUE>>
          ELSE ParseFrames(blob, offset + U32 + frame_size, left - 1,
                 Append(acc, [offset_in_blob |-> offset + U32,
                              compressed_size |-> frame_size]))

\* The index built from whatever fread delivered, without the comparison of
\* the number of bytes read with zstd_size.
build_zstd_frame_index_ShortRead(bytes, zstd_offset, zstd_size) ==
  LET blob == BytesAt(bytes, zstd_offset, zstd_size)
      num_kernels == FromLE(BytesAt(blob, 0, U32))
      parsed == ParseFrames(blob, U32, num_kernels, <<>>)
      fail(e) == [err |-> e, zstd_blob |-> <<>>, zstd_frames |-> <<>>]
  IN IF zstd_size < U32 THEN fail(KPACK_ERROR_INVALID_FORMAT)
     ELSE IF num_kernels > MAX_KERNELS THEN fail(KPACK_ERROR_INVALID_FORMAT)
     ELSE IF parsed[2] THEN fail(KPACK_ERROR_INVALID_FORMAT)
     ELSE [err |-> KPACK_SUCCESS, zstd_blob |-> blob, zstd_frames |-> parsed[1]]

build_zstd_frame_index(bytes, zstd_offset, zstd_size) ==
  LET blob == BytesAt(bytes, zstd_offset, zstd_size)
      num_kernels == FromLE(BytesAt(blob, 0, U32))
      parsed == ParseFrames(blob, U32, num_kernels, <<>>)
      fail(e) == [err |-> e, zstd_blob |-> <<>>, zstd_frames |-> <<>>]
  \* The first check of the code, zstd_size > 4 GiB, is false of every size
  \* the model can hold (sizes here are below 2^31).
  IN IF Len(blob) # zstd_size THEN fail(KPACK_ERROR_IO_ERROR)
     ELSE IF zstd_size < U32 THEN fail(KPACK_ERROR_INVALID_FORMAT)
     ELSE IF num_kernels > MAX_KERNELS THEN fail(KPACK_ERROR_INVALID_FORMAT)
     ELSE IF parsed[2] THEN fail(KPACK_ERROR_INVALID_FORMAT)
     ELSE [err |-> KPACK_SUCCESS, zstd_blob |-> blob, zstd_frames |-> parsed[1]]

(***************************************************************************)
(* archive.cpp: kpack_open.  The result is the error code and the archive  *)
(* handle (meaningful on success only).  kernel_cache is the vector of the *)
(* handle: kc_mem is its storage (as long as its capacity), of which the   *)
(* first kc_size bytes are its elements.                                   *)
(***************************************************************************)
NoArchive ==
  [open |-> FALSE, file_path |-> <<>>, file_pos |-> 0, version |-> 0,
   toc_offset |-> 0, gfx_arches |-> <<>>, compression_scheme |-> KPACK_COMPRESSION_NOOP,
   toc |-> <<>>, blobs |-> <<>>, zstd_offset |-> 0, zstd_size |-> 0,
   zstd_blob |-> <<>>, zstd_frames |-> <<>>, kc_size |-> 0, kc_mem |-> <<>>]

\* What kpack_open makes of the regular file at the canonical path target
\* (file_path is filled in by kpack_open).
OpenFile(target) ==
  LET file == FS[target]
      file_size == Len(file.bytes)
      hdr == validate_header(file.bytes)
      toc == parse_toc(file, hdr.toc_offset, file_size)
      zstd == toc.compression_scheme = KPACK_COMPRESSION_ZSTD_PER_KERNEL
      idx == build_zstd_frame_index(file.bytes, toc.zstd_offset, toc.zstd_size)
      fail(e) == [err |-> e, archive |-> NoArchive]
  IN IF hdr.err # KPACK_SUCCESS THEN fail(hdr.err)
     ELSE IF toc.err # KPACK_SUCCESS THEN fail(toc.err)
     ELSE IF zstd /\ idx.err # KPACK_SUCCESS THEN fail(idx.err)
     ELSE [err |-> KPACK_SUCCESS,
           archive |->
             [open |-> TRUE, file_path |-> <<>>,
              file_pos |-> IF zstd THEN toc.zstd_offset + toc.zstd_size ELSE file_size,
              version |-> hdr.version, toc_offset |-> hdr.toc_offset,
              gfx_arches |-> toc.gfx_arches,
              compression_scheme |-> toc.compression_scheme,
              toc |-> toc.toc, blobs |-> toc.blobs,
              zstd_offset |-> toc.zstd_offset, zstd_size |-> toc.zstd_size,
              zstd_blob |-> IF zstd THEN idx.zstd_blob ELSE <<>>,
              zstd_frames |-> IF zstd THEN idx.zstd_frames ELSE <<>>,
              kc_size |-> 0, kc_mem |-> <<>>]]

\* The files never change, so kpack_open makes the same of a file each time
\* it is called on it.
OpenedFiles == [target \in DOMAIN FS |-> OpenFile(target)]

kpack_open(path) ==
  IF Target(path) \notin DOMAIN FS
    THEN [err |-> KPACK_ERROR_FILE_NOT_FOUND, archive |-> NoArchive]
  ELSE IF OpenedFiles[Target(path)].err # KPACK_SUCCESS
    THEN OpenedFiles[Target(path)]
  ELSE [OpenedFiles[Target(path)] EXCEPT !.archive.file_path = path]

\* An index loop that stops one architecture short.
ArchSet_SkipLast(archive) ==
  Range(SubSeq(archive.gfx_arches, 1, Len(archive.gfx_arches) - 1))

\* kpack_get_architecture_count / kpack_get_architecture, as the cache uses
\* them: the set of the strings of gfx_arches.
ArchSet(archive) == Range(archive.gfx_arches)

(***************************************************************************)
(* loader.cpp: the environment, split_path_list and parse_hipk_metadata.   *)
(***************************************************************************)
\* An environment variable: unset (getenv returns nullptr) or a string.
Unset == [set |-> FALSE, v |-> <<>>]
Val(chars) == [set |-> TRUE, v |-> chars]

\* ROCM_KPACK_DISABLE / ROCM_KPACK_DEBUG: set, not empty, not starting with 0.
EnvFlag(e) == e.set /\ e.v # <<>> /\ e.v[1] # "0"

RECURSIVE SplitFrom(_, _, _)
\* The loop of split_path_list: current is the component being read, paths
\* the components read so far.
SplitFrom(chars, current, paths) ==
  IF chars = <<>>
  THEN IF current # <<>> THEN Append(paths, current) ELSE paths
  ELSE IF Head(chars) = ":"
       THEN IF current # <<>>
            THEN SplitFrom(Tail(chars), <<>>, Append(paths, current))
            ELSE SplitFrom(Tail(chars), current, paths)
       ELSE SplitFrom(Tail(chars), Append(current, Head(chars)), paths)

split_path_list(e) ==
  IF ~e.set \/ e.v = <<>> THEN <<>> ELSE SplitFrom(e.v, <<>>, <<>>)

\* A null pointer passed for the metadata.
NullObj == [type |-> "NULL", v |-> 0]

\* A decoder that accepts an empty list of paths.
parse_hipk_metadata_AllowEmpty(obj) ==
  LET name == find_key(obj.v, "kernel_name")
      paths == find_key(obj.v, "kpack_search_paths")
      fail == [err |-> KPACK_ERROR_INVALID_METADATA, kernel_name |-> "",
               search_paths |-> <<>>]
  IN IF obj.type = "INVALID" THEN fail
     ELSE IF obj.type # "MAP" THEN fail
     ELSE IF name.type # "STR" THEN fail
     ELSE IF paths.type # "ARRAY" THEN fail
     ELSE [err |-> KPACK_SUCCESS, kernel_name |-> name.v,
           search_paths |-> StrElems(paths.v)]

parse_hipk_metadata(obj) ==
  LET name == find_key(obj.v, "kernel_name")
      paths == find_key(obj.v, "kpack_search_paths")
      fail == [err |-> KPACK_ERROR_INVALID_METADATA, kernel_name |-> "",
               search_paths |-> <<>>]
  IN IF obj.type = "INVALID" THEN fail
     ELSE IF obj.type # "MAP" THEN fail
     ELSE IF name.type # "STR" THEN fail
     ELSE IF paths.type # "ARRAY" THEN fail
     ELSE IF StrElems(paths.v) = <<>> THEN fail
     ELSE [err |-> KPACK_SUCCESS, kernel_name |-> name.v,
           search_paths |-> StrElems(paths.v)]

RECURSIVE ResolveAll(_, _, _)
\* The loop that resolves the embedded paths against the binary and pushes
\* them at the back of search_paths.
ResolveAll(binary_path, embedded, search_paths) ==
  IF embedded = <<>> THEN search_paths
  ELSE ResolveAll(binary_path, Tail(embedded),
                  Append(search_paths, resolve_path(binary_path, Head(embedded))))

\* A search path list with the prefix paths after the embedded ones.
BuildSearchPaths_PrefixLast(c, binary_path, embedded) ==
  IF c.env_path_override # <<>> THEN c.env_path_override
  ELSE ResolveAll(binary_path, embedded, <<>>) \o c.env_path_prefix

\* The final search path list of a load (loader.cpp, "Build final search
\* paths list").
BuildSearchPaths(c, binary_path, embedded) ==
  IF c.env_path_override # <<>> THEN c.env_path_override
  ELSE ResolveAll(binary_path, embedded,
                  IF c.env_path_prefix # <<>> THEN c.env_path_prefix ELSE <<>>)

(***************************************************************************)
(* The callers: what the processes of one run may ask for.  A workload is  *)
(* the environment of the process and the loads its threads may issue.     *)
(***************************************************************************)
NullArch == "NULL"
\* Pointers: the null pointer, the storage of the kernel_cache of handle h
\* while its capacity is cap, and a value the caller never initialized.
NullPtr == [h |-> 0, cap |-> 0]
JunkPtr == [h |-> -1, cap |-> 0]
OutNull == [ptr |-> NullPtr, size |-> 0]
OutJunk == [ptr |-> JunkPtr, size |-> 7]

Meta(kernel, paths) ==
  MMap(<<KV("kernel_name", MStr(kernel)),
         KV("kpack_search_paths", MArr([i \in DOMAIN paths |-> MStr(paths[i])]))>>)

BinaryPath == <<"/", "d", "bin.so">>
RelA == <<"a.kpack">>
RelB == <<"b.kpack">>
RelC == <<"c.kpack">>
RelM == <<"m.kpack">>
RelV == <<"v.kpack">>
RelP == <<"p.kpack">>
RelT == <<"t.kpack">>
RelK == <<"k.kpack">>

\* nulls: the pointer arguments passed as null; out: the caller's output
\* variables before the call.
Req(meta, archs, count, nulls, out) ==
  [hipk_metadata |-> meta, binary_path |-> BinaryPath, arch_list |-> archs,
   arch_count |-> count, nulls |-> nulls, out |-> out]

ReqA1 == Req(Meta("bin1", <<RelA>>), <<"g1">>, 1, {}, OutNull)
ReqA2 == Req(Meta("bin1", <<RelM, RelA>>), <<"g2">>, 1, {}, OutJunk)
ReqBA == Req(Meta("bin1", <<RelB, RelA>>), <<"g1", "g3">>, 2, {}, OutNull)
ReqBA1 == Req(Meta("bin1", <<RelB, RelA>>), <<"g1">>, 1, {}, OutNull)
ReqCA == Req(Meta("bin1", <<RelV, RelA>>), <<"g1">>, 1, {}, OutNull)
ReqC == Req(Meta("bin1", <<RelC, RelV, RelP>>), <<"g1">>, 1, {}, OutNull)
ReqM == Req(Meta("bin1", <<RelM>>), <<"g1">>, 1, {}, OutJunk)
ReqL == Req(Meta("bin1", <<PathL, RelA>>), <<NullArch, "g9", "g2">>, 3, {}, OutNull)
ReqTA == Req(Meta("bin1", <<RelT, RelA>>), <<"g1", "g2">>, 2, {}, OutJunk)
ReqAT == Req(Meta("bin1", <<RelA, RelT>>), <<"g9", "g1">>, 2, {}, OutNull)
ReqBad == Req(MMap(<<KV("kernel_name", MStr("bin1"))>>), <<"g1">>, 1, {}, OutJunk)
\* Metadata the decoder rejects: a root that is an array, bytes that are not
\* MessagePack, kernel_name missing or of the binary type, kpack_search_paths
\* nil, an empty array, an array without a string.
MBin(s) == [type |-> "BIN", v |-> s]
MNil == [type |-> "NIL", v |-> <<>>]
InvMeta == [type |-> "INVALID", v |-> <<>>]
ReqRootArr == Req(MArr(<<>>), <<"g1">>, 1, {}, OutJunk)
ReqRootInv == Req(InvMeta, <<"g1">>, 1, {}, OutJunk)
ReqNoName ==
  Req(MMap(<<KV("kpack_search_paths", MArr(<<MStr(RelA)>>))>>), <<"g1">>, 1, {}, OutJunk)
ReqNameBin ==
  Req(MMap(<<KV("kernel_name", MBin("bin1")),
             KV("kpack_search_paths", MArr(<<MStr(RelA)>>))>>), <<"g1">>, 1, {}, OutJunk)
ReqPathsNil ==
  Req(MMap(<<KV("kernel_name", MStr("bin1")),
             KV("kpack_search_paths", MNil)>>), <<"g1">>, 1, {}, OutJunk)
ReqEmpty ==
  Req(MMap(<<KV("kernel_name", MStr("bin1")),
             KV("kpack_search_paths", MArr(<<>>))>>), <<"g1">>, 1, {}, OutJunk)
ReqBins ==
  Req(MMap(<<KV("kernel_name", MStr("bin1")),
             KV("kpack_search_paths", MArr(<<MBin(RelA)>>))>>), <<"g1">>, 1, {}, OutJunk)
\* Metadata whose path array has a string after a binary.
ReqMixed ==
  Req(MMap(<<KV("kernel_name", MStr("bin1")),
             KV("kpack_search_paths", MArr(<<MBin(RelM), MStr(RelA)>>))>>),
      <<"g1">>, 1, {}, OutJunk)
ReqNull == Req(NullObj, <<"g1">>, 1, {"hipk_metadata"}, OutJunk)
\* The kernel of length zero, and the one-byte kernel of the same archive.
ReqK0 == Req(Meta("bin1", <<RelK>>), <<"g9", "g1", "g2">>, 3, {}, OutJunk)
ReqK1 == Req(Meta("bin1", <<RelK>>), <<"g2">>, 1, {}, OutNull)
ReqZero == Req(Meta("bin1", <<RelA>>), <<"g1">>, 0, {}, OutJunk)

NoEnv == [path |-> Unset, prefix |-> Unset, disable |-> Unset, debug |-> Unset]

Workloads ==
  { [env |-> NoEnv, requests |-> {ReqA1, ReqA2, ReqBad}],
    [env |-> NoEnv, requests |-> {ReqBA, ReqBA1, ReqL}],
    [env |-> NoEnv, requests |-> {ReqCA, ReqC, ReqM}],
    [env |-> [NoEnv EXCEPT !.disable = Val(<<"1">>)],
     requests |-> {ReqA1, ReqNull, ReqBad}],
    [env |-> [path |-> Val(PathA \o <<":", ":">> \o PathM), prefix |-> Val(PathB),
              disable |-> Val(<<"0">>), debug |-> Unset],
     requests |-> {ReqBA, ReqM, ReqZero}],
    [env |-> [path |-> Val(<<>>), prefix |-> Val(PathB \o <<":">>),
              disable |-> Val(<<>>), debug |-> Val(<<"1">>)],
     requests |-> {ReqA1, ReqL}],
    [env |-> NoEnv, requests |-> {ReqTA, ReqAT}],
    [env |-> NoEnv, requests |-> {ReqRootArr, ReqNameBin, ReqNoName, ReqMixed}],
    [env |-> [NoEnv EXCEPT !.path = Val(PathA)],
     requests |-> {ReqRootInv, ReqPathsNil, ReqEmpty, ReqBins}],
    [env |-> NoEnv, requests |-> {ReqK0, ReqK1}] }

(***************************************************************************)
(* State.  cache is the kpack_cache (state none before kpack_cache_create, *)
(* live, then destroyed); handles the archive handles ever opened; th the  *)
(* threads, each with the locals of the call it is in.                     *)
(***************************************************************************)
NoThread == 0
NoHandle == 0

NoCache ==
  [state |-> "none", env_path_override |-> <<>>, env_path_prefix |-> <<>>,
   disabled |-> FALSE, debug |-> FALSE, archives |-> <<>>, archive_archs |-> <<>>,
   archive_mutex |-> NoThread]

IdleThread ==
  [pc |-> "idle", op |-> "none", req |-> ReqNull, parsed |-> FALSE,
   kernel_name |-> "", search_paths |-> <<>>, valid |-> <<>>, i |-> 0,
   archive |-> NoHandle, binary |-> "", arch |-> "", want |-> 0,
   kernel_data |-> NullPtr, kernel_size |-> 0, out |-> OutNull,
   err |-> "none", ret |-> "none", served |-> <<>>, fetches |-> 0, bufs |-> <<>>]

Init ==
  /\ \E w \in Workloads : env = w.env /\ requests = w.requests
  /\ cache = NoCache
  /\ handles = <<>>
  /\ th = [t \in Threads |-> IdleThread]
  /\ ncalls = 0

(***************************************************************************)
(* loader.cpp: kpack_cache_create.                                         *)
(***************************************************************************)
kpack_cache_create ==
  /\ cache.state = "none"
  /\ cache' = [NoCache EXCEPT
       !.state = "live",
       !.disabled = EnvFlag(env.disable),
       !.debug = EnvFlag(env.debug),
       !.env_path_override = split_path_list(env.path),
       !.env_path_prefix = split_path_list(env.prefix)]
  /\ UNCHANGED <<env, requests, handles, th, ncalls>>

\* The environment after the process has changed the four variables.
AltEnv ==
  [path |-> Val(PathZ), prefix |-> Val(PathC), disable |-> Val(<<"1">>),
   debug |-> Val(<<"1">>)]

\* The process changes its environment (setenv); nothing of the library runs.
EnvChange ==
  /\ env # AltEnv
  /\ env' = AltEnv
  /\ UNCHANGED <<requests, cache, handles, th, ncalls>>

(***************************************************************************)
(* loader.cpp: kpack_load_code_object, from entry to the search path list. *)
(***************************************************************************)
\* A return that clears the outputs of a failing call.
Return_Clearing(rec, code) ==
  [rec EXCEPT !.pc = "idle", !.ret = code,
              !.out = IF code = KPACK_SUCCESS THEN rec.out ELSE OutNull]

\* A call returns: the thread is idle again and ret is the return code.
Return(rec, code) == [rec EXCEPT !.pc = "idle", !.ret = code]

StartCall(rec, op, out) ==
  [rec EXCEPT !.op = op, !.out = out, !.parsed = FALSE, !.kernel_name = "",
              !.search_paths = <<>>, !.valid = <<>>, !.i = 0,
              !.archive = NoHandle, !.binary = "", !.arch = "", !.want = 0,
              !.kernel_data = NullPtr, !.kernel_size = 0, !.err = "none",
              !.ret = "none",
              !.served = <<>>, !.fetches = 0]

\* A load that decodes the metadata before it looks at the disabled flag.
LoadEntry_DecodeFirst(rec, r, c) ==
  LET base == [StartCall(rec, "load", r.out) EXCEPT !.req = r]
      md == parse_hipk_metadata(r.hipk_metadata)
  IN IF r.nulls # {} \/ r.arch_count = 0
       THEN Return(base, KPACK_ERROR_INVALID_ARGUMENT)
     ELSE IF md.err # KPACK_SUCCESS
       THEN Return([base EXCEPT !.parsed = TRUE, !.err = md.err], md.err)
     ELSE IF c.disabled
       THEN Return([base EXCEPT !.parsed = TRUE, !.err = md.err],
                   KPACK_ERROR_NOT_IMPLEMENTED)
     ELSE [base EXCEPT !.parsed = TRUE, !.err = md.err, !.kernel_name = md.kernel_name,
             !.search_paths = BuildSearchPaths(c, r.binary_path, md.search_paths),
             !.pc = "walk_lock"]

LoadEntry(rec, r, c) ==
  LET base == [StartCall(rec, "load", r.out) EXCEPT !.req = r]
      md == parse_hipk_metadata(r.hipk_metadata)
  IN IF r.nulls # {} \/ r.arch_count = 0
       THEN Return(base, KPACK_ERROR_INVALID_ARGUMENT)
     ELSE IF c.disabled THEN Return(base, KPACK_ERROR_NOT_IMPLEMENTED)
     ELSE IF md.err # KPACK_SUCCESS
       THEN Return([base EXCEPT !.parsed = TRUE, !.err = md.err], md.err)
     ELSE [base EXCEPT !.parsed = TRUE, !.err = md.err, !.kernel_name = md.kernel_name,
             !.search_paths = BuildSearchPaths(c, r.binary_path, md.search_paths),
             !.pc = "walk_lock"]

\* A load that reads the environment again.
LoadCall_Reread(t, r) ==
  /\ th[t].pc = "idle"
  /\ cache.state = "live"
  /\ ncalls < MaxCalls
  /\ cache' = [cache EXCEPT
       !.disabled = EnvFlag(env.disable),
       !.debug = EnvFlag(env.debug),
       !.env_path_override = split_path_list(env.path),
       !.env_path_prefix = split_path_list(env.prefix)]
  /\ th' = [th EXCEPT ![t] = LoadEntry(th[t], r, cache')]
  /\ ncalls' = ncalls + 1
  /\ UNCHANGED <<env, requests, handles>>

LoadCall(t, r) ==
  /\ th[t].pc = "idle"
  /\ cache.state = "live"
  /\ ncalls < MaxCalls
  /\ th' = [th EXCEPT ![t] = LoadEntry(th[t], r, cache)]
  /\ ncalls' = ncalls + 1
  /\ UNCHANGED <<env, requests, cache, handles>>

(***************************************************************************)
(* The path walk, under archive_mutex.                                     *)
(***************************************************************************)
WalkLock(t) ==
  /\ th[t].pc = "walk_lock"
  /\ cache.archive_mutex = NoThread
  /\ cache' = [cache EXCEPT !.archive_mutex = t]
  /\ th' = [th EXCEPT ![t].pc = "walk"]
  /\ UNCHANGED <<env, requests, handles, ncalls>>

Put(f, k, val) == [x \in DOMAIN f \cup {k} |-> IF x = k THEN val ELSE f[x]]

\* An iteration that forgets a path that is in the cache already.
WalkStep_DropCached(st, canonical, exists, o) ==
  IF canonical \in DOMAIN st.archives THEN st
  ELSE IF ~exists THEN st
  ELSE IF o.err # KPACK_SUCCESS THEN [st EXCEPT !.err = o.err]
  ELSE [archives |-> Put(st.archives, canonical, Len(st.handles) + 1),
        archive_archs |-> Put(st.archive_archs, canonical, ArchSet(o.archive)),
        handles |-> Append(st.handles, o.archive),
        valid |-> Append(st.valid, canonical),
        err |-> o.err]

\* An iteration that puts a path found in the cache before the others.
WalkStep_HitFirst(st, canonical, exists, o) ==
  IF canonical \in DOMAIN st.archives
    THEN [st EXCEPT !.valid = <<canonical>> \o st.valid]
  ELSE IF ~exists THEN st
  ELSE IF o.err # KPACK_SUCCESS THEN [st EXCEPT !.err = o.err]
  ELSE [archives |-> Put(st.archives, canonical, Len(st.handles) + 1),
        archive_archs |-> Put(st.archive_archs, canonical, ArchSet(o.archive)),
        handles |-> Append(st.handles, o.archive),
        valid |-> Append(st.valid, canonical),
        err |-> o.err]

\* An iteration that opens the file before it looks in the cache, and drops
\* the new handle of a path that is in the cache already.
WalkStep_OpenFirst(st, canonical, exists, o) ==
  IF exists /\ o.err = KPACK_SUCCESS /\ canonical \in DOMAIN st.archives
    THEN [st EXCEPT !.handles = Append(st.handles, o.archive),
                    !.valid = Append(st.valid, canonical)]
  ELSE IF canonical \in DOMAIN st.archives
    THEN [st EXCEPT !.valid = Append(st.valid, canonical)]
  ELSE IF ~exists THEN st
  ELSE IF o.err # KPACK_SUCCESS THEN [st EXCEPT !.err = o.err]
  ELSE [archives |-> Put(st.archives, canonical, Len(st.handles) + 1),
        archive_archs |-> Put(st.archive_archs, canonical, ArchSet(o.archive)),
        handles |-> Append(st.handles, o.archive),
        valid |-> Append(st.valid, canonical),
        err |-> o.err]

\* An iteration that opens a cached path again and replaces its entry.
WalkStep_Replace(st, canonical, exists, o) ==
  IF ~exists THEN st
  ELSE IF o.err # KPACK_SUCCESS THEN [st EXCEPT !.err = o.err]
  ELSE [archives |-> Put(st.archives, canonical, Len(st.handles) + 1),
        archive_archs |-> Put(st.archive_archs, canonical, ArchSet(o.archive)),
        handles |-> Append(st.handles, o.archive),
        valid |-> Append(st.valid, canonical),
        err |-> o.err]

\* The body of the loop over search_paths, given the canonical path, whether
\* the file exists and what kpack_open returns for it; st holds the two maps
\* of the cache, the handles, valid_archive_paths and the local err.
WalkStep(st, canonical, exists, o) ==
  IF canonical \in DOMAIN st.archives
    THEN [st EXCEPT !.valid = Append(st.valid, canonical)]
  ELSE IF ~exists THEN st
  ELSE IF o.err # KPACK_SUCCESS THEN [st EXCEPT !.err = o.err]
  ELSE [archives |-> Put(st.archives, canonical, Len(st.handles) + 1),
        archive_archs |-> Put(st.archive_archs, canonical, ArchSet(o.archive)),
        handles |-> Append(st.handles, o.archive),
        valid |-> Append(st.valid, canonical),
        err |-> o.err]

\* One iteration of the loop over search_paths.
WalkOne(path, st) ==
  WalkStep(st, get_canonical_path(path), file_exists(path), kpack_open(path))

RECURSIVE WalkPaths(_, _)
WalkPaths(paths, st) ==
  IF paths = <<>> THEN st ELSE WalkPaths(Tail(paths), WalkOne(Head(paths), st))

\* A walk that gives up at a file kpack_open rejects and returns its error.
Walk_Propagate(t) ==
  /\ th[t].pc = "walk"
  /\ cache.archive_mutex = t
  /\ LET sp == th[t].search_paths
         bad == {k \in DOMAIN sp :
                   /\ get_canonical_path(sp[k]) \notin DOMAIN cache.archives
                   /\ file_exists(sp[k])
                   /\ kpack_open(sp[k]).err # KPACK_SUCCESS}
         stop == IF bad = {} THEN Len(sp) + 1
                 ELSE CHOOSE k \in bad : \A m \in bad : k <= m
         st == WalkPaths(SubSeq(sp, 1, stop - 1),
                 [archives |-> cache.archives, archive_archs |-> cache.archive_archs,
                  handles |-> handles, valid |-> <<>>, err |-> th[t].err])
     IN /\ cache' = [cache EXCEPT !.archives = st.archives,
                                  !.archive_archs = st.archive_archs,
                                  !.archive_mutex = NoThread]
        /\ handles' = st.handles
        /\ th' = [th EXCEPT ![t] =
             IF bad # {}
             THEN Return([th[t] EXCEPT !.err = kpack_open(sp[stop]).err],
                         kpack_open(sp[stop]).err)
             ELSE IF st.valid = <<>>
             THEN Return([th[t] EXCEPT !.err = st.err], KPACK_ERROR_ARCHIVE_NOT_FOUND)
             ELSE [th[t] EXCEPT !.valid = st.valid, !.err = st.err, !.i = 1,
                                !.pc = "arch"]]
  /\ UNCHANGED <<env, requests, ncalls>>

\* An end of the walk that returns ARCHIVE_NOT_FOUND with archive_mutex
\* still locked.
WalkCommit_KeepLock(t, st) ==
  /\ cache' = [cache EXCEPT !.archives = st.archives,
                            !.archive_archs = st.archive_archs,
                            !.archive_mutex = IF st.valid = <<>> THEN t ELSE NoThread]
  /\ handles' = st.handles
  /\ th' = [th EXCEPT ![t] =
       IF st.valid = <<>>
       THEN Return([th[t] EXCEPT !.err = st.err], KPACK_ERROR_ARCHIVE_NOT_FOUND)
       ELSE [th[t] EXCEPT !.valid = st.valid, !.err = st.err, !.i = 1, !.pc = "arch"]]

\* The end of the walk: the maps and the handles are stored, archive_mutex is
\* released, and the load returns if no archive is valid.
WalkCommit(t, st) ==
  /\ cache' = [cache EXCEPT !.archives = st.archives,
                            !.archive_archs = st.archive_archs,
                            !.archive_mutex = NoThread]
  /\ handles' = st.handles
  /\ th' = [th EXCEPT ![t] =
       IF st.valid = <<>>
       THEN Return([th[t] EXCEPT !.err = st.err], KPACK_ERROR_ARCHIVE_NOT_FOUND)
       ELSE [th[t] EXCEPT !.valid = st.valid, !.err = st.err, !.i = 1, !.pc = "arch"]]

Walk(t) ==
  /\ th[t].pc = "walk"
  /\ cache.archive_mutex = t
  /\ WalkCommit(t, WalkPaths(th[t].search_paths,
                  [archives |-> cache.archives, archive_archs |-> cache.archive_archs,
                   handles |-> handles, valid |-> <<>>, err |-> th[t].err]))
  /\ UNCHANGED <<env, requests, ncalls>>

(***************************************************************************)
(* The arch-first search: the loop over arch_list.                         *)
(***************************************************************************)
\* The tail of kpack_load_code_object, after the loop.
LoadFinish(rec, h) ==
  IF rec.kernel_data = NullPtr THEN Return(rec, KPACK_ERROR_ARCH_NOT_FOUND)
  ELSE Return([rec EXCEPT
         !.out = [ptr |-> rec.kernel_data, size |-> rec.kernel_size],
         !.bufs = Append(rec.bufs,
                    [ptr |-> rec.kernel_data, size |-> rec.kernel_size,
                     bytes |-> SubSeq(h.kc_mem, 1, Min(rec.kernel_size, Len(h.kc_mem)))])],
       KPACK_SUCCESS)

\* The head of the loop: past the end of arch_list the load finishes, a null
\* entry is skipped, otherwise the thread takes archive_mutex for the lookup.
ArchStep(t) ==
  LET rec == th[t] IN
  /\ rec.pc = "arch"
  /\ IF rec.i > rec.req.arch_count
       THEN /\ th' = [th EXCEPT ![t] = LoadFinish(rec, NoArchive)]
            /\ UNCHANGED cache
     ELSE IF rec.req.arch_list[rec.i] = NullArch
       THEN /\ th' = [th EXCEPT ![t].i = rec.i + 1]
            /\ UNCHANGED cache
     ELSE /\ cache.archive_mutex = NoThread
          /\ cache' = [cache EXCEPT !.archive_mutex = t]
          /\ th' = [th EXCEPT ![t].pc = "find"]
  /\ UNCHANGED <<env, requests, handles, ncalls>>

RECURSIVE FindArchive(_, _, _)
\* The first archive of valid_archive_paths whose architecture set has arch
\* and that is in the archive map; NoHandle if there is none.
FindArchive(c, valid, arch) ==
  IF valid = <<>> THEN NoHandle
  ELSE IF \/ Head(valid) \notin DOMAIN c.archive_archs
          \/ arch \notin c.archive_archs[Head(valid)]
       THEN FindArchive(c, Tail(valid), arch)
  ELSE IF Head(valid) \in DOMAIN c.archives THEN c.archives[Head(valid)]
  ELSE FindArchive(c, Tail(valid), arch)

\* A lookup that keeps archive_mutex for the fetch that follows.
Find_KeepLock(t) ==
  LET rec == th[t]
      arch == rec.req.arch_list[rec.i]
      archive == FindArchive(cache, rec.valid, arch)
  IN /\ rec.pc = "find"
     /\ cache.archive_mutex = t
     /\ cache' = [cache EXCEPT !.archive_mutex =
                     IF archive = NoHandle THEN NoThread ELSE t]
     /\ th' = [th EXCEPT ![t] =
          IF archive = NoHandle
          THEN [rec EXCEPT !.i = rec.i + 1, !.pc = "arch"]
          ELSE [rec EXCEPT !.archive = archive, !.binary = rec.kernel_name,
                           !.arch = arch, !.fetches = rec.fetches + 1,
                           !.pc = "gk_entry"]]
     /\ UNCHANGED <<env, requests, handles, ncalls>>

Find(t) ==
  LET rec == th[t]
      arch == rec.req.arch_list[rec.i]
      archive == FindArchive(cache, rec.valid, arch)
  IN /\ rec.pc = "find"
     /\ cache.archive_mutex = t
     /\ cache' = [cache EXCEPT !.archive_mutex = NoThread]
     /\ th' = [th EXCEPT ![t] =
          IF archive = NoHandle
          THEN [rec EXCEPT !.i = rec.i + 1, !.pc = "arch"]
          ELSE [rec EXCEPT !.archive = archive, !.binary = rec.kernel_name,
                           !.arch = arch, !.fetches = rec.fetches + 1,
                           !.pc = "gk_entry"]]
     /\ UNCHANGED <<env, requests, handles, ncalls>>

(***************************************************************************)
(* kpack.cpp: kpack_get_kernel, with decompress_noop and decompress_zstd   *)
(* of compression.cpp.  The function takes no lock, so each access to the  *)
(* shared handle (the resize of kernel_cache, fseek, fread, the            *)
(* decompression, the final read of data() and size()) is a step of its    *)
(* own.                                                                    *)
(***************************************************************************)
\* kernel_cache.data(): null while the vector owns no storage.
DataPtr(h, a) == IF Len(a.kc_mem) = 0 THEN NullPtr ELSE [h |-> h, cap |-> Len(a.kc_mem)]

\* A resize that never lowers the size.
Resize_NoShrink(a, n) ==
  [a EXCEPT !.kc_size = Max(n, a.kc_size),
            !.kc_mem = [k \in 1..Max(n, Len(a.kc_mem)) |->
                          IF k > a.kc_size /\ k <= n THEN 0
                          ELSE IF k <= Len(a.kc_mem) THEN a.kc_mem[k] ELSE 0]]

\* kernel_cache.resize(n): new elements are zero; the storage is reallocated
\* when n exceeds the capacity.
Resize(a, n) ==
  [a EXCEPT !.kc_size = n,
            !.kc_mem = [k \in 1..Max(n, Len(a.kc_mem)) |->
                          IF k > a.kc_size /\ k <= n THEN 0
                          ELSE IF k <= Len(a.kc_mem) THEN a.kc_mem[k] ELSE 0]]

\* Writing data at the start of the storage.
Store(a, data) ==
  [a EXCEPT !.kc_mem = [k \in 1..Max(Len(data), Len(a.kc_mem)) |->
                          IF k <= Len(data) THEN data[k] ELSE a.kc_mem[k]]]

\* What the caller of kpack_get_kernel does with its result.
\* A caller that goes on to the next architecture after any error.
AfterFetch_SkipAll(rec, err, data, size, h) ==
  LET got == [rec EXCEPT !.err = err] IN
  IF rec.op = "load"
  THEN IF err = KPACK_SUCCESS
         THEN LoadFinish([got EXCEPT !.kernel_data = data, !.kernel_size = size,
                                      !.served = <<rec.i, rec.archive>>], h)
       ELSE [got EXCEPT !.i = rec.i + 1, !.pc = "arch"]
  ELSE IF err = KPACK_SUCCESS
         THEN Return([got EXCEPT
                !.out = [ptr |-> data, size |-> size],
                !.bufs = Append(rec.bufs,
                           [ptr |-> data, size |-> size,
                            bytes |-> SubSeq(h.kc_mem, 1, Min(size, Len(h.kc_mem)))])],
              KPACK_SUCCESS)
       ELSE Return(got, err)

AfterFetch(rec, err, data, size, h) ==
  LET got == [rec EXCEPT !.err = err] IN
  IF rec.op = "load"
  THEN IF err = KPACK_SUCCESS
         THEN LoadFinish([got EXCEPT !.kernel_data = data, !.kernel_size = size,
                                      !.served = <<rec.i, rec.archive>>], h)
       ELSE IF err # KPACK_ERROR_KERNEL_NOT_FOUND THEN Return(got, err)
       ELSE [got EXCEPT !.i = rec.i + 1, !.pc = "arch"]
  ELSE IF err = KPACK_SUCCESS
         THEN Return([got EXCEPT
                !.out = [ptr |-> data, size |-> size],
                !.bufs = Append(rec.bufs,
                           [ptr |-> data, size |-> size,
                            bytes |-> SubSeq(h.kc_mem, 1, Min(size, Len(h.kc_mem)))])],
              KPACK_SUCCESS)
       ELSE Return(got, err)

\* A lookup whose ordinal check is off by one.
GkEntry_OffByOne(t) ==
  LET rec == th[t]
      a == handles[rec.archive]
      found == rec.binary \in DOMAIN a.toc /\ rec.arch \in DOMAIN a.toc[rec.binary]
      km == a.toc[rec.binary][rec.arch]
      noop == a.compression_scheme = KPACK_COMPRESSION_NOOP
      count == IF noop THEN Len(a.blobs) ELSE Len(a.zstd_frames)
      n == IF noop THEN a.blobs[km.ordinal + 1].size ELSE km.original_size
  IN /\ rec.pc = "gk_entry"
     /\ IF ~found \/ km.ordinal + 1 >= count
          THEN /\ th' = [th EXCEPT ![t] =
                    AfterFetch(rec, KPACK_ERROR_KERNEL_NOT_FOUND, NullPtr, 0, a)]
               /\ UNCHANGED handles
          ELSE /\ handles' = [handles EXCEPT ![rec.archive] = Resize(a, n)]
               /\ th' = [th EXCEPT ![t].want = km.ordinal,
                                   ![t].pc = IF noop THEN "gk_seek" ELSE "gk_decomp"]
     /\ UNCHANGED <<env, requests, cache, ncalls>>

GkEntry(t) ==
  LET rec == th[t]
      a == handles[rec.archive]
      found == rec.binary \in DOMAIN a.toc /\ rec.arch \in DOMAIN a.toc[rec.binary]
      km == a.toc[rec.binary][rec.arch]
      noop == a.compression_scheme = KPACK_COMPRESSION_NOOP
      count == IF noop THEN Len(a.blobs) ELSE Len(a.zstd_frames)
      n == IF noop THEN a.blobs[km.ordinal + 1].size ELSE km.original_size
  IN /\ rec.pc = "gk_entry"
     /\ IF ~found \/ km.ordinal >= count
          THEN /\ th' = [th EXCEPT ![t] =
                    AfterFetch(rec, KPACK_ERROR_KERNEL_NOT_FOUND, NullPtr, 0, a)]
               /\ UNCHANGED handles
          ELSE /\ handles' = [handles EXCEPT ![rec.archive] = Resize(a, n)]
               /\ th' = [th EXCEPT ![t].want = km.ordinal,
                                   ![t].pc = IF noop THEN "gk_seek" ELSE "gk_decomp"]
     /\ UNCHANGED <<env, requests, cache, ncalls>>

GkSeek(t) ==
  LET rec == th[t]
      a == handles[rec.archive]
  IN /\ rec.pc = "gk_seek"
     /\ handles' = [handles EXCEPT ![rec.archive].file_pos = a.blobs[rec.want + 1].offset]
     /\ th' = [th EXCEPT ![t].pc = "gk_read"]
     /\ UNCHANGED <<env, requests, cache, ncalls>>

GkRead(t) ==
  LET rec == th[t]
      a == handles[rec.archive]
      blob == a.blobs[rec.want + 1]
      data == BytesAt(FS[Target(a.file_path)].bytes, a.file_pos, blob.size)
      b == [Store(a, data) EXCEPT !.file_pos = a.file_pos + Len(data)]
  IN /\ rec.pc = "gk_read"
     /\ handles' = [handles EXCEPT ![rec.archive] = b]
     /\ th' = [th EXCEPT ![t] =
          IF Len(data) # blob.size
          THEN AfterFetch(rec, KPACK_ERROR_IO_ERROR, NullPtr, 0, b)
          ELSE [rec EXCEPT !.pc = "gk_ret"]]
     /\ UNCHANGED <<env, requests, cache, ncalls>>

GkDecompress(t) ==
  LET rec == th[t]
      a == handles[rec.archive]
      frame == a.zstd_frames[rec.want + 1]
      expected_size == a.toc[rec.binary][rec.arch].original_size
      compressed == BytesAt(a.zstd_blob, frame.offset_in_blob, frame.compressed_size)
      ok == compressed \in DOMAIN ZstdTable /\ Len(ZstdTable[compressed]) <= expected_size
      b == IF ok THEN Store(a, ZstdTable[compressed]) ELSE a
  IN /\ rec.pc = "gk_decomp"
     /\ handles' = [handles EXCEPT ![rec.archive] = b]
     /\ th' = [th EXCEPT ![t] =
          IF ~ok \/ Len(ZstdTable[compressed]) # expected_size
          THEN AfterFetch(rec, KPACK_ERROR_DECOMPRESSION_FAILED, NullPtr, 0, b)
          ELSE [rec EXCEPT !.pc = "gk_ret"]]
     /\ UNCHANGED <<env, requests, cache, ncalls>>

GkReturn(t) ==
  LET rec == th[t]
      a == handles[rec.archive]
  IN /\ rec.pc = "gk_ret"
     /\ th' = [th EXCEPT ![t] =
          AfterFetch(rec, KPACK_SUCCESS, DataPtr(rec.archive, a), a.kc_size, a)]
     /\ UNCHANGED <<env, requests, cache, handles, ncalls>>

(***************************************************************************)
(* loader.cpp: kpack_cache_destroy (kpack_close on every cached archive).  *)
(* The caller must make sure that no thread is using the cache.            *)
(***************************************************************************)
kpack_close(a) == [a EXCEPT !.open = FALSE, !.kc_size = 0, !.kc_mem = <<>>]

kpack_cache_destroy ==
  /\ cache.state = "live"
  /\ \A t \in Threads : th[t].pc = "idle"
  /\ handles' = [h \in DOMAIN handles |->
       IF \E p \in DOMAIN cache.archives : cache.archives[p] = h
       THEN kpack_close(handles[h]) ELSE handles[h]]
  /\ cache' = [NoCache EXCEPT !.state = "destroyed"]
  /\ UNCHANGED <<env, requests, th, ncalls>>

Step(t) ==
  \/ \E r \in requests : LoadCall(t, r)
  \/ WalkLock(t)
  \/ Walk(t)
  \/ ArchStep(t)
  \/ Find(t)
  \/ GkEntry(t)
  \/ GkSeek(t)
  \/ GkRead(t)
  \/ GkReturn(t)

Next ==
  \/ kpack_cache_create
  \/ kpack_cache_destroy
  \/ EnvChange
  \/ \E t \in Threads : Step(t)

Spec == Init /\ [][Next]_vars

(***************************************************************************)
(* The loader under a scheduler that lets every thread that can take a     *)
(* step inside kpack_load_code_object take one in the end.  Whether and    *)
(* when a thread makes a call is up to the application.                    *)
(***************************************************************************)
Run(t) ==
  \/ WalkLock(t)
  \/ Walk(t)
  \/ ArchStep(t)
  \/ Find(t)
  \/ GkEntry(t)
  \/ GkSeek(t)
  \/ GkRead(t)
  \/ GkReturn(t)

SpecFair == Init /\ [][Next]_vars /\ \A t \in Threads : WF_vars(Run(t))

(***************************************************************************)
(* The loader with one call at a time: a thread starts or continues a call *)
(* only while every other thread is outside the library.                   *)
(***************************************************************************)
SeqStep(t) ==
  /\ \A u \in Threads \ {t} : th[u].pc = "idle"
  /\ Step(t)

NextSeq ==
  \/ kpack_cache_create
  \/ kpack_cache_destroy
  \/ EnvChange
  \/ \E t \in Threads : SeqStep(t)

SpecSeq == Init /\ [][NextSeq]_vars

(***************************************************************************)
(* The archive API used directly: threads share the handles that           *)
(* kpack_open returned and call kpack_get_kernel and kpack_close on them.  *)
(***************************************************************************)
ArchivePaths == {PathA, PathZ, PathC}
\* The (binary, arch) pairs the callers ask for.
Kernels == {<<"bin1", "g1">>, <<"bin1", "g2">>, <<"bin2", "g1">>}

OpenCall(path) ==
  LET o == kpack_open(path) IN
  /\ Len(handles) < MaxHandles
  /\ handles' = IF o.err = KPACK_SUCCESS THEN Append(handles, o.archive) ELSE handles
  /\ UNCHANGED <<env, requests, cache, th, ncalls>>

GetKernelCall(t, h, binary, arch) ==
  /\ th[t].pc = "idle"
  /\ ncalls < MaxCalls
  /\ handles[h].open
  /\ th' = [th EXCEPT ![t] =
       [StartCall(th[t], "get_kernel", OutNull) EXCEPT
          !.archive = h, !.binary = binary, !.arch = arch, !.pc = "gk_entry"]]
  /\ ncalls' = ncalls + 1
  /\ UNCHANGED <<env, requests, cache, handles>>

\* kpack_close; the caller must not close a handle that a call is using.
CloseCall(h) ==
  /\ handles[h].open
  /\ \A t \in Threads : th[t].pc = "idle" \/ th[t].archive # h
  /\ handles' = [handles EXCEPT ![h] = kpack_close(handles[h])]
  /\ UNCHANGED <<env, requests, cache, th, ncalls>>

InitArchive ==
  /\ env = NoEnv
  /\ requests = {}
  /\ cache = NoCache
  /\ handles = <<>>
  /\ th = [t \in Threads |-> IdleThread]
  /\ ncalls = 0

NextArchive ==
  \/ \E path \in ArchivePaths : OpenCall(path)
  \/ \E h \in DOMAIN handles : CloseCall(h)
  \/ \E t \in Threads, h \in DOMAIN handles, k \in Kernels :
        GetKernelCall(t, h, k[1], k[2])
  \/ \E t \in Threads : GkEntry(t) \/ GkSeek(t) \/ GkRead(t) \/ GkDecompress(t) \/ GkReturn(t)

SpecArchive == InitArchive /\ [][NextArchive]_vars

(***************************************************************************)
(* The archive API with one kpack_get_kernel at a time: a call starts only *)
(* while every thread is outside the library.                              *)
(***************************************************************************)
ArchivePathsSeq == {PathA, PathZ, PathT}

GetKernelSeq(t, h, binary, arch) ==
  /\ \A u \in Threads : th[u].pc = "idle"
  /\ GetKernelCall(t, h, binary, arch)

NextArchiveSeq ==
  \/ \E path \in ArchivePathsSeq : OpenCall(path)
  \/ \E h \in DOMAIN handles : CloseCall(h)
  \/ \E t \in Threads, h \in DOMAIN handles, k \in Kernels :
        GetKernelSeq(t, h, k[1], k[2])
  \/ \E t \in Threads : GkEntry(t) \/ GkSeek(t) \/ GkRead(t) \/ GkDecompress(t) \/ GkReturn(t)

SpecArchiveSeq == InitArchive /\ [][NextArchiveSeq]_vars

(***************************************************************************)
(* The public functions called one by one, each with any of its pointer    *)
(* arguments null.  req holds the arguments of the call.                   *)
(***************************************************************************)
OpenPaths ==
  {PathA, PathZ, PathC, PathV, PathP, PathE, PathS, PathCV, PathVO, PathO, PathM}

\* The thread that makes the calls.
Callers == {1}

\* The arguments of a call: nulls are the pointer arguments passed as null.
Args(path, nulls, index, size) ==
  [path |-> path, nulls |-> nulls, index |-> index, size |-> size]

\* A call that returns code in the step that enters it; out is what the
\* caller's output variables hold after it.
Entered(t, op, args, out) == [StartCall(th[t], op, out) EXCEPT !.req = args]

\* kpack_open(path, &archive), of which o is the outcome on the file.
OpenResult(t, path, nulls, o) ==
  LET base == Entered(t, "kpack_open", Args(path, nulls, 0, 0), OutJunk)
  IN /\ IF nulls # {}
          THEN /\ th' = [th EXCEPT ![t] = Return(base, KPACK_ERROR_INVALID_ARGUMENT)]
               /\ UNCHANGED handles
        ELSE IF o.err # KPACK_SUCCESS
          THEN /\ th' = [th EXCEPT ![t] = Return(base, o.err)]
               /\ UNCHANGED handles
        ELSE /\ handles' = Append(handles, o.archive)
             /\ th' = [th EXCEPT ![t] =
                  Return([base EXCEPT !.archive = Len(handles) + 1], KPACK_SUCCESS)]
     /\ UNCHANGED <<env, requests, cache, ncalls>>

OpenBy(t, path, nulls) ==
  /\ th[t].pc = "idle"
  /\ Len(handles) < MaxHandles
  /\ OpenResult(t, path, nulls, kpack_open(path))

\* A call that changes nothing but the record of the caller.
Answer(t, rec, code) ==
  /\ th[t].pc = "idle"
  /\ th' = [th EXCEPT ![t] = Return(rec, code)]
  /\ UNCHANGED <<env, requests, cache, handles, ncalls>>

\* kpack_close, kpack_cache_destroy and kpack_free_code_object with a null
\* argument.
CloseNull(t) ==
  Answer(t, Entered(t, "kpack_close", Args(<<>>, {"archive"}, 0, 0), OutJunk), "void")
CacheDestroyNull(t) ==
  Answer(t, Entered(t, "kpack_cache_destroy", Args(<<>>, {"cache"}, 0, 0), OutJunk), "void")
FreeCodeObjectNull(t) ==
  Answer(t, Entered(t, "kpack_free_code_object", Args(<<>>, {"code_object"}, 0, 0),
                    OutJunk), "void")
\* kpack_free_kernel with a null argument: releases nothing.
FreeKernelNull(t) ==
  Answer(t, Entered(t, "kpack_free_kernel", Args(<<>>, {"kernel_data"}, 0, 0), OutJunk),
         "void")

\* kpack_cache_create(nullptr).
CacheCreateNull(t) ==
  Answer(t, Entered(t, "kpack_cache_create", Args(<<>>, {"cache"}, 0, 0), OutJunk),
         KPACK_ERROR_INVALID_ARGUMENT)

\* binary_names: the keys of the TOC in the order of std::map.
BinaryOrder == <<"bin1", "bin2">>
binary_names(a) == SelectSeq(BinaryOrder, LAMBDA b : b \in DOMAIN a.toc)

\* kpack_get_architecture_count and kpack_get_binary_count; the count goes
\* to out.size.
CountCall(t, op, h, nulls, names) ==
  LET base == Entered(t, op, Args(<<>>, nulls, 0, 0), OutJunk) IN
  /\ handles[h].open
  /\ IF nulls # {}
       THEN Answer(t, base, KPACK_ERROR_INVALID_ARGUMENT)
     ELSE Answer(t, [base EXCEPT !.archive = h, !.out.size = Len(names)], KPACK_SUCCESS)

kpack_get_architecture_count(t, h, nulls) ==
  CountCall(t, "kpack_get_architecture_count", h, nulls, handles[h].gfx_arches)
kpack_get_binary_count(t, h, nulls) ==
  CountCall(t, "kpack_get_binary_count", h, nulls, binary_names(handles[h]))

\* kpack_get_architecture and kpack_get_binary; the string goes to arch or
\* to binary.
kpack_get_architecture(t, h, index, nulls) ==
  LET base == Entered(t, "kpack_get_architecture", Args(<<>>, nulls, index, 0), OutJunk)
      names == handles[h].gfx_arches
  IN /\ handles[h].open
     /\ IF nulls # {} THEN Answer(t, base, KPACK_ERROR_INVALID_ARGUMENT)
        ELSE IF index >= Len(names) THEN Answer(t, base, KPACK_ERROR_INVALID_ARGUMENT)
        ELSE Answer(t, [base EXCEPT !.archive = h, !.arch = names[index + 1]],
                    KPACK_SUCCESS)

kpack_get_binary(t, h, index, nulls) ==
  LET base == Entered(t, "kpack_get_binary", Args(<<>>, nulls, index, 0), OutJunk)
      names == binary_names(handles[h])
  IN /\ handles[h].open
     /\ IF nulls # {} THEN Answer(t, base, KPACK_ERROR_INVALID_ARGUMENT)
        ELSE IF index >= Len(names) THEN Answer(t, base, KPACK_ERROR_INVALID_ARGUMENT)
        ELSE Answer(t, [base EXCEPT !.archive = h, !.binary = names[index + 1]],
                    KPACK_SUCCESS)

\* kpack_get_kernel with a null pointer among its arguments.
GetKernelNull(t, nulls) ==
  /\ nulls # {}
  /\ Answer(t, Entered(t, "kpack_get_kernel", Args(<<>>, nulls, 0, 0), OutJunk),
            KPACK_ERROR_INVALID_ARGUMENT)

\* kpack_load_code_object with a null pointer among its arguments or with
\* arch_count 0.
NullRequests ==
  {Req(Meta("bin1", <<RelA>>), <<"g1">>, 1, {p}, OutJunk) :
     p \in {"cache", "hipk_metadata", "binary_path", "arch_list",
            "code_object_out", "code_object_size_out"}}
    \cup {ReqZero}

LoadNull(t, r) ==
  /\ th[t].pc = "idle"
  /\ "cache" \in r.nulls \/ cache.state = "live"
  /\ th' = [th EXCEPT ![t] = LoadEntry(th[t], r, cache)]
  /\ UNCHANGED <<env, requests, cache, handles, ncalls>>

\* kpack_enumerate_architectures.  The archive is opened and is a handle of
\* its own until the function closes it; the callback is user code, so each
\* invocation is a step.  served holds the strings the callback got, valid
\* what it answered, i the loop index.
EnumOpened(t, path, nulls, o) ==
  LET base == Entered(t, "kpack_enumerate_architectures", Args(path, nulls, 0, 0),
                      OutJunk)
  IN IF nulls # {} THEN Answer(t, base, KPACK_ERROR_INVALID_ARGUMENT)
     ELSE IF o.err # KPACK_SUCCESS THEN Answer(t, base, o.err)
     ELSE /\ th[t].pc = "idle"
          /\ Len(handles) < MaxHandles
          /\ handles' = Append(handles, o.archive)
          /\ th' = [th EXCEPT ![t] =
               [base EXCEPT !.archive = Len(handles) + 1,
                            !.pc = IF Len(o.archive.gfx_arches) = 0
                                   THEN "enum_close" ELSE "enum_cb"]]
          /\ UNCHANGED <<env, requests, cache, ncalls>>

kpack_enumerate_architectures(t, path, nulls) ==
  EnumOpened(t, path, nulls, kpack_open(path))

\* A callback that stops the enumeration leaves the function at once.
EnumCallback_LeakOnStop(t, should_continue) ==
  LET rec == th[t]
      names == handles[rec.archive].gfx_arches
      got == [rec EXCEPT !.served = Append(rec.served, names[rec.i + 1]),
                         !.valid = Append(rec.valid, should_continue),
                         !.i = rec.i + 1]
  IN /\ rec.pc = "enum_cb"
     /\ th' = [th EXCEPT ![t] =
          IF ~should_continue THEN Return(got, KPACK_SUCCESS)
          ELSE [got EXCEPT !.pc = IF got.i < Len(names) THEN "enum_cb"
                                  ELSE "enum_close"]]
     /\ UNCHANGED <<env, requests, cache, handles, ncalls>>

\* One turn of the loop: kpack_get_architecture(archive, i, &arch), then the
\* callback, which answers should_continue.
EnumCallback(t, should_continue) ==
  LET rec == th[t]
      names == handles[rec.archive].gfx_arches
      got == [rec EXCEPT !.served = Append(rec.served, names[rec.i + 1]),
                         !.valid = Append(rec.valid, should_continue),
                         !.i = rec.i + 1]
  IN /\ rec.pc = "enum_cb"
     /\ th' = [th EXCEPT ![t] =
          [got EXCEPT !.pc = IF should_continue /\ got.i < Len(names)
                             THEN "enum_cb" ELSE "enum_close"]]
     /\ UNCHANGED <<env, requests, cache, handles, ncalls>>

\* kpack_close(archive); return KPACK_SUCCESS.
EnumClose(t) ==
  /\ th[t].pc = "enum_close"
  /\ handles' = [handles EXCEPT ![th[t].archive] = kpack_close(handles[th[t].archive])]
  /\ th' = [th EXCEPT ![t] = Return(th[t], KPACK_SUCCESS)]
  /\ UNCHANGED <<env, requests, cache, ncalls>>

\* /proc/self/maps, parsed: the address range, the file offset and the
\* pathname of each line (empty for an anonymous mapping).
ProcMaps ==
  << [low |-> 10, high |-> 20, offset |-> 0, pathname |-> <<>>],
     [low |-> 20, high |-> 30, offset |-> 4, pathname |-> <<"[", "heap", "]">>],
     [low |-> 30, high |-> 40, offset |-> 8, pathname |-> BinaryPath],
     [low |-> 12, high |-> 18, offset |-> 2, pathname |-> <<"/", "so">>],
     [low |-> 30, high |-> 45, offset |-> 6, pathname |-> PathA] >>

RECURSIVE ScanMaps_NoTerminator(_, _, _)
\* A scan that leaves no room for the terminator.
ScanMaps_NoTerminator(lines, target_addr, path_out_size) ==
  LET line == Head(lines)
      fail(e) == [err |-> e, path |-> <<>>, offset |-> 0]
  IN IF lines = <<>> THEN fail(KPACK_ERROR_PATH_DISCOVERY_FAILED)
     ELSE IF target_addr < line.low \/ target_addr >= line.high
       THEN ScanMaps_NoTerminator(Tail(lines), target_addr, path_out_size)
     ELSE IF line.pathname = <<>> \/ Head(line.pathname) = "["
       THEN ScanMaps_NoTerminator(Tail(lines), target_addr, path_out_size)
     ELSE IF Len(line.pathname) > path_out_size
       THEN fail(KPACK_ERROR_INVALID_ARGUMENT)
     ELSE [err |-> KPACK_SUCCESS, path |-> line.pathname,
           offset |-> line.offset + (target_addr - line.low)]

RECURSIVE ScanMaps(_, _, _)
\* The loop over the lines: the first line that holds the address and has a
\* pathname decides.
ScanMaps(lines, target_addr, path_out_size) ==
  LET line == Head(lines)
      fail(e) == [err |-> e, path |-> <<>>, offset |-> 0]
  IN IF lines = <<>> THEN fail(KPACK_ERROR_PATH_DISCOVERY_FAILED)
     ELSE IF target_addr < line.low \/ target_addr >= line.high
       THEN ScanMaps(Tail(lines), target_addr, path_out_size)
     ELSE IF line.pathname = <<>> \/ Head(line.pathname) = "["
       THEN ScanMaps(Tail(lines), target_addr, path_out_size)
     ELSE IF Len(line.pathname) >= path_out_size
       THEN fail(KPACK_ERROR_INVALID_ARGUMENT)
     ELSE [err |-> KPACK_SUCCESS, path |-> line.pathname,
           offset |-> line.offset + (target_addr - line.low)]

\* A discovery that does not look at path_out_size on entry.
Discovered_NoSizeCheck(t, address, size, nulls, m) ==
  LET base == Entered(t, "kpack_discover_binary_path", Args(<<>>, nulls, address, size),
                      OutJunk)
  IN IF nulls \cap {"address_in_binary", "path_out"} # {}
       THEN Answer(t, base, KPACK_ERROR_INVALID_ARGUMENT)
     ELSE IF m.err # KPACK_SUCCESS THEN Answer(t, base, m.err)
     ELSE Answer(t, [base EXCEPT
                       !.search_paths = <<m.path>>,
                       !.out.size = IF "offset_out" \in nulls THEN base.out.size
                                    ELSE m.offset],
                 KPACK_SUCCESS)

\* kpack_discover_binary_path: path_out goes to search_paths, *offset_out to
\* out.size.  offset_out may be null.
Discovered(t, address, size, nulls, m) ==
  LET base == Entered(t, "kpack_discover_binary_path", Args(<<>>, nulls, address, size),
                      OutJunk)
  IN IF nulls \cap {"address_in_binary", "path_out"} # {} \/ size = 0
       THEN Answer(t, base, KPACK_ERROR_INVALID_ARGUMENT)
     ELSE IF m.err # KPACK_SUCCESS THEN Answer(t, base, m.err)
     ELSE Answer(t, [base EXCEPT
                       !.search_paths = <<m.path>>,
                       !.out.size = IF "offset_out" \in nulls THEN base.out.size
                                    ELSE m.offset],
                 KPACK_SUCCESS)

kpack_discover_binary_path(t, address, size, nulls) ==
  Discovered(t, address, size, nulls, ScanMaps(ProcMaps, address, size))

ApiCall(t) ==
  \/ \E path \in OpenPaths, nulls \in SUBSET {"path", "archive"} : OpenBy(t, path, nulls)
  \/ CloseNull(t)
  \/ CacheDestroyNull(t)
  \/ FreeCodeObjectNull(t)
  \/ FreeKernelNull(t)
  \/ CacheCreateNull(t)
  \/ \E h \in DOMAIN handles, nulls \in SUBSET {"archive", "count"} :
        kpack_get_architecture_count(t, h, nulls)
  \/ \E h \in DOMAIN handles, nulls \in SUBSET {"archive", "count"} :
        kpack_get_binary_count(t, h, nulls)
  \/ \E h \in DOMAIN handles, index \in 0..2, nulls \in SUBSET {"archive", "arch"} :
        kpack_get_architecture(t, h, index, nulls)
  \/ \E h \in DOMAIN handles, index \in 0..2, nulls \in SUBSET {"archive", "binary"} :
        kpack_get_binary(t, h, index, nulls)
  \/ \E nulls \in SUBSET {"archive", "binary_name", "arch", "kernel_data", "kernel_size"} :
        GetKernelNull(t, nulls)
  \/ \E r \in NullRequests : LoadNull(t, r)
  \/ \E path \in {PathA, PathZ, PathC, PathM},
        nulls \in SUBSET {"archive_path", "callback"} :
        kpack_enumerate_architectures(t, path, nulls)
  \/ \E should_continue \in BOOLEAN : EnumCallback(t, should_continue)
  \/ EnumClose(t)
  \/ \E address \in {5, 11, 15, 25, 35, 42}, size \in {0, 2, 3, 4},
        nulls \in {{}, {"address_in_binary"}, {"path_out"}, {"offset_out"},
                   {"address_in_binary", "path_out", "offset_out"}} :
        kpack_discover_binary_path(t, address, size, nulls)

NextApi ==
  \/ \E t \in Callers : ApiCall(t)
  \/ \E h \in DOMAIN handles : CloseCall(h)
  \/ kpack_cache_create
  \/ kpack_cache_destroy

SpecApi == InitArchive /\ [][NextApi]_vars

(***************************************************************************)
(* kpack_open and kpack_close on files with a well-formed header and a     *)
(* MessagePack map for a TOC, well-formed or not.                          *)
(***************************************************************************)
FormatPaths ==
  {PathA, PathZ, PathZ2, PathNS, PathNZ, PathBT, PathZE, PathZK, PathZF, PathZP,
   PathZS}

NextOpen ==
  \/ \E t \in Callers, path \in FormatPaths : OpenBy(t, path, {})
  \/ \E h \in DOMAIN handles : CloseCall(h)

SpecOpen == InitArchive /\ [][NextOpen]_vars

(***************************************************************************)
(* Vocabulary of the properties.                                           *)
(***************************************************************************)
\* Thread t has made a load that has returned.
Done(t) == th[t].op = "load" /\ th[t].pc = "idle" /\ th[t].ret # "none"

EntryErrors ==
  {KPACK_ERROR_INVALID_ARGUMENT, KPACK_ERROR_NOT_IMPLEMENTED,
   KPACK_ERROR_INVALID_METADATA}
FormatErrors ==
  {KPACK_ERROR_INVALID_FORMAT, KPACK_ERROR_UNSUPPORTED_VERSION,
   KPACK_ERROR_MSGPACK_PARSE_FAILED}

\* The load of t got as far as the path walk, and has returned.
Walked(t) == Done(t) /\ th[t].ret \notin EntryErrors

ValidArgs(r) == r.nulls = {} /\ r.arch_count > 0

\* There is a file at path and it is an archive that kpack_open accepts.
Opens(path) == file_exists(path) /\ kpack_open(path).err = KPACK_SUCCESS
\* There is a file at path and kpack_open rejects its content.
Corrupt(path) == file_exists(path) /\ kpack_open(path).err \in FormatErrors

\* What kpack_get_kernel(binary, arch) yields on the archive at path when no
\* other call runs: the entry of the TOC, read from the file or decoded.
AloneFetch(path, binary, arch) ==
  LET a == kpack_open(path).archive
      km == a.toc[binary][arch]
      noop == a.compression_scheme = KPACK_COMPRESSION_NOOP
      blob == a.blobs[km.ordinal + 1]
      frame == a.zstd_frames[km.ordinal + 1]
      data == IF noop
              THEN BytesAt(FS[Target(path)].bytes, blob.offset, blob.size)
              ELSE ZstdTable[BytesAt(a.zstd_blob, frame.offset_in_blob,
                                     frame.compressed_size)]
      fail(e) == [err |-> e, size |-> 0, bytes |-> <<>>]
  IN IF binary \notin DOMAIN a.toc THEN fail(KPACK_ERROR_KERNEL_NOT_FOUND)
     ELSE IF arch \notin DOMAIN a.toc[binary] THEN fail(KPACK_ERROR_KERNEL_NOT_FOUND)
     ELSE IF km.ordinal >= (IF noop THEN Len(a.blobs) ELSE Len(a.zstd_frames))
       THEN fail(KPACK_ERROR_KERNEL_NOT_FOUND)
     ELSE IF noop /\ Len(data) # blob.size THEN fail(KPACK_ERROR_IO_ERROR)
     ELSE IF ~noop /\ Len(data) # km.original_size
       THEN fail(KPACK_ERROR_DECOMPRESSION_FAILED)
     ELSE [err |-> KPACK_SUCCESS, size |-> Len(data), bytes |-> data]

\* The archive at path yields the kernel for arch.
Yields(path, kernel, arch) ==
  arch # NullArch /\ AloneFetch(path, kernel, arch).err = KPACK_SUCCESS

\* The positions i of arch_list for which some archive opened by the load of
\* t yields the kernel, and for such an i the positions of those archives.
YieldingArchs(t) ==
  {i \in 1..th[t].req.arch_count :
     \E j \in DOMAIN th[t].valid :
        Yields(th[t].valid[j], th[t].kernel_name, th[t].req.arch_list[i])}
YieldingArchives(t, i) ==
  {j \in DOMAIN th[t].valid :
     Yields(th[t].valid[j], th[t].kernel_name, th[t].req.arch_list[i])}
Least(S) == CHOOSE x \in S : \A y \in S : x <= y

\* A buffer handed to a caller still is the storage it was and holds the
\* bytes it held when it was returned.
BufIntact(buf) ==
  /\ handles[buf.ptr.h].open
  /\ Len(handles[buf.ptr.h].kc_mem) = buf.ptr.cap
  /\ SubSeq(handles[buf.ptr.h].kc_mem, 1, buf.size) = buf.bytes

(***************************************************************************)
(* The properties.                                                         *)
(***************************************************************************)

\* C1: a load returns the kernel of the earliest architecture of arch_list
\* for which any opened archive of the path list yields the kernel, taken
\* from the earliest such archive in path order.
Claim_C1 ==
  \A t \in Threads :
    (Walked(t) /\ YieldingArchs(t) # {}) =>
      LET i == Least(YieldingArchs(t))
          j == Least(YieldingArchives(t, i))
      IN /\ th[t].ret = KPACK_SUCCESS
         /\ th[t].served[1] = i
         /\ get_canonical_path(handles[th[t].served[2]].file_path) = th[t].valid[j]

\* C2: a load returns ARCH_NOT_FOUND only if no pair of an architecture of
\* arch_list and an opened archive of the path list yields the kernel.
Claim_C2 ==
  \A t \in Threads :
    (Done(t) /\ th[t].ret = KPACK_ERROR_ARCH_NOT_FOUND) =>
      ~ \E i \in 1..th[t].req.arch_count, j \in DOMAIN th[t].valid :
           Yields(th[t].valid[j], th[t].kernel_name, th[t].req.arch_list[i])

\* C3: under concurrent loads the cache has at most one handle per
\* canonical path, and every load whose fetch finds the kernel in the
\* cached archive succeeds with that archive.
OneHandlePerPath ==
  \A h1, h2 \in DOMAIN handles :
    (/\ handles[h1].open /\ handles[h2].open
     /\ get_canonical_path(handles[h1].file_path)
          = get_canonical_path(handles[h2].file_path)) => h1 = h2

Claim_C3 ==
  /\ OneHandlePerPath
  /\ \A t \in Threads :
       (/\ Done(t) /\ th[t].fetches > 0
        /\ Yields(handles[th[t].archive].file_path, th[t].binary, th[t].arch))
       => th[t].ret = KPACK_SUCCESS

\* C4: whatever other calls run on the same handle, a kpack_get_kernel call
\* returns the code, the size and the bytes it returns when it runs alone.
Claim_C4 ==
  \A t \in Threads :
    (th[t].op = "get_kernel" /\ th[t].pc = "idle" /\ th[t].ret # "none") =>
      LET r == AloneFetch(handles[th[t].archive].file_path, th[t].binary, th[t].arch)
      IN /\ th[t].ret = r.err
         /\ r.err = KPACK_SUCCESS =>
              /\ th[t].out.size = r.size
              /\ th[t].bufs[Len(th[t].bufs)].bytes = r.bytes

\* C5: a buffer returned by kpack_get_kernel keeps its bytes and its size
\* whatever calls follow on the archive, and no two buffers share storage.
Claim_C5 ==
  \A t \in Threads : \A k \in DOMAIN th[t].bufs :
    /\ BufIntact(th[t].bufs[k])
    /\ \A u \in Threads : \A m \in DOMAIN th[u].bufs :
         <<t, k>> # <<u, m>> => th[t].bufs[k].ptr # th[u].bufs[m].ptr

\* C6: a buffer returned by kpack_load_code_object stays valid and unchanged
\* through later loads on the cache and through kpack_cache_destroy.
Claim_C6 ==
  \A t \in Threads :
    th[t].op = "load" => \A k \in DOMAIN th[t].bufs : BufIntact(th[t].bufs[k])

\* C7: on a cache created with the disabled flag, a load with valid
\* arguments returns NOT_IMPLEMENTED at once: the metadata is not decoded,
\* no archive is opened or cached, the outputs keep the caller's values.
T_C7 ==
  (cache.state = "live" /\ cache.disabled) =>
    /\ handles = <<>> /\ DOMAIN cache.archives = {}
    /\ \A t \in Threads :
         /\ th[t].pc = "idle"
         /\ (th[t].op = "load" /\ ValidArgs(th[t].req)) =>
              /\ th[t].ret = KPACK_ERROR_NOT_IMPLEMENTED
              /\ ~th[t].parsed
              /\ th[t].out = th[t].req.out

W_C7 ==
  /\ cache.state = "live" /\ cache.disabled
  /\ \E t \in Threads :
       /\ Done(t) /\ th[t].req = ReqBad
       /\ th[t].ret = KPACK_ERROR_NOT_IMPLEMENTED /\ th[t].out = OutJunk

\* C8: the search path list of a load is the override list when that is
\* not empty; otherwise it is the prefix list followed by the embedded
\* paths, each resolved against the directory of binary_path, in order.
Embedded(r) == StrElems(find_key(r.hipk_metadata.v, "kpack_search_paths").v)

T_C8 ==
  cache.state = "live" =>
    \A t \in Threads :
      (th[t].op = "load" /\ th[t].parsed /\ th[t].ret # KPACK_ERROR_INVALID_METADATA) =>
        LET sp == th[t].search_paths
            pre == cache.env_path_prefix
            emb == Embedded(th[t].req)
        IN IF cache.env_path_override # <<>>
           THEN sp = cache.env_path_override
           ELSE /\ Len(sp) = Len(pre) + Len(emb)
                /\ \A k \in DOMAIN pre : sp[k] = pre[k]
                /\ \A k \in DOMAIN emb :
                     sp[Len(pre) + k] =
                       IF is_absolute(emb[k]) THEN emb[k]
                       ELSE weakly_canonical(parent_path(th[t].req.binary_path) \o emb[k])

W_C8 ==
  /\ cache.state = "live"
  /\ cache.env_path_override = <<>> /\ cache.env_path_prefix = <<PathB>>
  /\ \E t \in Threads :
       /\ Done(t) /\ th[t].req = ReqL
       /\ th[t].search_paths = <<PathB, PathL, PathA>>

\* The paths of a list that open, as the walk records them.
RECURSIVE OpenedOf(_)
OpenedOf(paths) ==
  IF paths = <<>> THEN <<>>
  ELSE IF Opens(Head(paths))
    THEN <<get_canonical_path(Head(paths))>> \o OpenedOf(Tail(paths))
  ELSE OpenedOf(Tail(paths))

CorruptAt(t) == {k \in DOMAIN th[t].search_paths : Corrupt(th[t].search_paths[k])}

\* C9 (as stated): a load whose path list has a file that exists and is a
\* corrupt archive returns the error kpack_open gives for that file.
Claim_C9 ==
  \A t \in Threads :
    (Walked(t) /\ CorruptAt(t) # {}) =>
      th[t].ret = kpack_open(th[t].search_paths[Least(CorruptAt(t))]).err

\* C9 (amended): the walk skips a path whose file exists but is a corrupt
\* archive exactly as it skips a missing one: the load never returns the
\* error of kpack_open, the corrupt file gets no cache entry, the paths after
\* it are still opened, and the load returns ARCHIVE_NOT_FOUND when no path
\* of the list opens.
T_C9 ==
  /\ \A p \in DOMAIN cache.archives : ~Corrupt(p)
  /\ \A t \in Threads :
       (Walked(t) /\ CorruptAt(t) # {}) =>
         /\ th[t].ret \notin FormatErrors
         /\ IF OpenedOf(th[t].search_paths) = <<>>
            THEN th[t].ret = KPACK_ERROR_ARCHIVE_NOT_FOUND
            ELSE th[t].valid = OpenedOf(th[t].search_paths)

W_C9 ==
  \E t \in Threads :
    /\ Done(t) /\ th[t].req = ReqCA /\ CorruptAt(t) = {1}
    /\ th[t].ret = KPACK_SUCCESS /\ th[t].valid = <<PathA>>

\* C10: a load that walks its path list returns ARCHIVE_NOT_FOUND exactly
\* when no path of the list is cached or opens; a missing path gets no cache
\* entry and the paths after it still serve the load.
MissingAt(t) == {k \in DOMAIN th[t].search_paths : ~file_exists(th[t].search_paths[k])}

T_C10 ==
  /\ \A p \in DOMAIN cache.archives : file_exists(p)
  /\ \A t \in Threads :
       Walked(t) =>
         /\ th[t].ret = KPACK_ERROR_ARCHIVE_NOT_FOUND <=>
              \A k \in DOMAIN th[t].search_paths :
                 /\ ~Opens(th[t].search_paths[k])
                 /\ get_canonical_path(th[t].search_paths[k]) \notin DOMAIN cache.archives
         /\ \A k \in DOMAIN th[t].search_paths :
              Opens(th[t].search_paths[k]) =>
                \E j \in DOMAIN th[t].valid :
                   th[t].valid[j] = get_canonical_path(th[t].search_paths[k])

W_C10 ==
  /\ cache.state = "live"
  /\ PathM \notin DOMAIN cache.archives
  /\ \E t \in Threads :
       /\ Done(t) /\ th[t].req = ReqA2 /\ MissingAt(t) = {1}
       /\ th[t].ret = KPACK_SUCCESS /\ th[t].served = <<1, cache.archives[PathA]>>
  /\ \E t \in Threads :
       /\ Done(t) /\ th[t].req = ReqA1 /\ th[t].ret # KPACK_ERROR_ARCHIVE_NOT_FOUND

\* The positions of a thread inside kpack_get_kernel.
GkPcs == {"gk_entry", "gk_seek", "gk_read", "gk_decomp", "gk_ret"}

\* C11: when kpack_get_kernel returns to a load with an error other than
\* KERNEL_NOT_FOUND, the load returns at once with that error code: it makes
\* no further fetch and the outputs keep the caller's values.
FatalReturn(t) ==
  (/\ th[t].op = "load" /\ th[t].pc \in GkPcs /\ th'[t].pc \notin GkPcs
   /\ th'[t].err \notin {KPACK_SUCCESS, KPACK_ERROR_KERNEL_NOT_FOUND})
  => /\ th'[t].pc = "idle"
     /\ th'[t].ret = th'[t].err
     /\ th'[t].out = th[t].req.out
     /\ th'[t].served = <<>>
     /\ th'[t].fetches = th[t].fetches
     /\ th'[t].bufs = th[t].bufs

T_C11 == [][\A t \in Threads : FatalReturn(t)]_vars

W_C11 ==
  \E t \in Threads :
    /\ Done(t) /\ th[t].req = ReqTA /\ th[t].fetches = 1
    /\ th[t].err = KPACK_ERROR_IO_ERROR /\ th[t].ret = KPACK_ERROR_IO_ERROR
    /\ th[t].out = OutJunk
    /\ \A u \in Threads \ {t} : th[u].op = "none"

\* C12 (as stated): after every failing load that was given output
\* pointers, *code_object_out is null and *code_object_size_out is zero.
Claim_C12 ==
  \A t \in Threads :
    (/\ Done(t) /\ th[t].ret # KPACK_SUCCESS
     /\ th[t].req.nulls \cap {"code_object_out", "code_object_size_out"} = {})
    => th[t].out = OutNull

\* C12 (amended): a load writes its outputs only when it returns SUCCESS; on
\* every failing return, and while the call runs, they hold the values the
\* caller passed in, so they are null and zero only if the caller made them so.
T_C12 ==
  \A t \in Threads :
    th[t].op = "load" =>
      IF th[t].ret = KPACK_SUCCESS
      THEN /\ th[t].out.ptr # NullPtr /\ th[t].out.ptr # JunkPtr
           /\ th[t].out = [ptr |-> th[t].kernel_data, size |-> th[t].kernel_size]
      ELSE th[t].out = th[t].req.out

W_C12 ==
  /\ \E t \in Threads :
       /\ Done(t) /\ th[t].ret = KPACK_ERROR_ARCHIVE_NOT_FOUND
       /\ th[t].req = ReqM /\ th[t].out = OutJunk
  /\ \E t \in Threads :
       /\ Done(t) /\ th[t].ret = KPACK_SUCCESS
       /\ th[t].req = ReqCA /\ th[t].out.size = 2

\* The four configuration values of a cache, and what an environment gives.
Config(c) ==
  <<c.env_path_override, c.env_path_prefix, c.disabled, c.debug>>
FromEnv(e) ==
  <<split_path_list(e.path), split_path_list(e.prefix), EnvFlag(e.disable),
    EnvFlag(e.debug)>>

\* C13: the four configuration values are what the environment gave when
\* kpack_cache_create ran, and no later step changes them while the cache
\* lives, whatever the process does to its environment.
ConfigFrozen ==
  /\ (cache.state = "none" /\ cache'.state = "live") => Config(cache') = FromEnv(env)
  /\ (cache.state = "live" /\ cache'.state = "live") => Config(cache') = Config(cache)

T_C13 == [][ConfigFrozen]_vars

W_C13 ==
  /\ cache.state = "live" /\ env = AltEnv
  /\ Config(cache) # FromEnv(env) /\ ~cache.disabled
  /\ \E t \in Threads :
       /\ Done(t) /\ th[t].ret = KPACK_SUCCESS
       /\ th[t].search_paths = <<PathB, PathL, PathA>>

\* C14: while the cache lives every cached path keeps its handle and the
\* handle stays open; no two paths share a handle, and kpack_cache_destroy
\* closes each cached handle, which was open until then.
Retained ==
  (cache.state = "live" /\ cache'.state = "live") =>
    \A p \in DOMAIN cache.archives :
      /\ p \in DOMAIN cache'.archives
      /\ cache'.archives[p] = cache.archives[p]
      /\ handles[cache.archives[p]].open
      /\ handles'[cache.archives[p]].open

ClosedOnce ==
  (cache.state = "live" /\ cache'.state = "destroyed") =>
    /\ \A p, q \in DOMAIN cache.archives :
         cache.archives[p] = cache.archives[q] => p = q
    /\ \A p \in DOMAIN cache.archives :
         /\ handles[cache.archives[p]].open
         /\ ~handles'[cache.archives[p]].open

T_C14 == [][Retained /\ ClosedOnce]_vars

W_C14 ==
  /\ cache.state = "destroyed"
  /\ Len(handles) = 2
  /\ \A h \in DOMAIN handles : ~handles[h].open
  /\ \A t \in Threads : Done(t) /\ th[t].ret = KPACK_SUCCESS

\* What a load gives on a cache that holds no archive yet: the entry checks,
\* the walk from empty maps, then the search with each fetch made on a
\* handle no other call has touched (so that the data pointer of a kernel of
\* length zero is null, which the load takes for no kernel).
RECURSIVE FreshSearch(_, _, _, _, _)
FreshSearch(st, kernel, arch_list, arch_count, i) ==
  LET arch == arch_list[i]
      h == FindArchive(st, st.valid, arch)
      r == AloneFetch(st.handles[h].file_path, kernel, arch)
  IN IF i > arch_count THEN [ret |-> KPACK_ERROR_ARCH_NOT_FOUND, bytes |-> <<>>]
     ELSE IF arch = NullArch \/ h = NoHandle
       THEN FreshSearch(st, kernel, arch_list, arch_count, i + 1)
     ELSE IF r.err = KPACK_SUCCESS
       THEN IF r.bytes = <<>>
              THEN [ret |-> KPACK_ERROR_ARCH_NOT_FOUND, bytes |-> <<>>]
              ELSE [ret |-> KPACK_SUCCESS, bytes |-> r.bytes]
     ELSE IF r.err = KPACK_ERROR_KERNEL_NOT_FOUND
       THEN FreshSearch(st, kernel, arch_list, arch_count, i + 1)
     ELSE [ret |-> r.err, bytes |-> <<>>]

FreshLoad(c, r) ==
  LET e == LoadEntry(IdleThread, r, c)
      st == WalkPaths(e.search_paths,
              [archives |-> <<>>, archive_archs |-> <<>>, handles |-> <<>>,
               valid |-> <<>>, err |-> e.err])
  IN IF e.pc = "idle" THEN [ret |-> e.ret, bytes |-> <<>>]
     ELSE IF st.valid = <<>>
       THEN [ret |-> KPACK_ERROR_ARCHIVE_NOT_FOUND, bytes |-> <<>>]
     ELSE FreshSearch(st, e.kernel_name, r.arch_list, r.arch_count, 1)

\* C15: with one call at a time, every load returns the error code and the
\* bytes that the same load returns on a fresh cache of the same
\* configuration, whatever loads the cache has served before.
Claim_C15 ==
  cache.state = "live" =>
    \A t \in Threads :
      Done(t) =>
        LET f == FreshLoad(cache, th[t].req)
        IN /\ th[t].ret = f.ret
           /\ th[t].ret = KPACK_SUCCESS =>
                /\ th[t].out.size = Len(f.bytes)
                /\ th[t].bufs[Len(th[t].bufs)].bytes = f.bytes

W_C15 ==
  /\ cache.state = "live" /\ Len(handles) = 2
  /\ \E t, u \in Threads :
       /\ t # u /\ Done(t) /\ Done(u)
       /\ th[t].req = ReqAT /\ th[t].ret = KPACK_SUCCESS
       /\ th[u].req = ReqAT /\ th[u].ret = KPACK_SUCCESS
       /\ th[u].bufs[1].bytes = <<11, 12>>

\* Thread t has made a kpack_get_kernel call that has returned.
GotKernel(t) == th[t].op = "get_kernel" /\ th[t].pc = "idle" /\ th[t].ret # "none"

\* The outcome of the returned call of t: error code, size and bytes.
OutcomeOf(t) ==
  [err |-> th[t].ret,
   size |-> IF th[t].ret = KPACK_SUCCESS THEN th[t].out.size ELSE 0,
   bytes |-> IF th[t].ret = KPACK_SUCCESS
             THEN th[t].bufs[Len(th[t].bufs)].bytes ELSE <<>>]

\* C16: with one call at a time, the outcome of kpack_get_kernel is a
\* function of the file and of (binary, arch): it is what the first call on
\* a freshly opened handle gives, whatever calls the handle has served, and
\* two calls agree even when they are made on two handles of the file.
T_C16 ==
  /\ \A t \in Threads :
       GotKernel(t) =>
         OutcomeOf(t) = AloneFetch(handles[th[t].archive].file_path,
                                   th[t].binary, th[t].arch)
  /\ \A t, u \in Threads :
       (/\ GotKernel(t) /\ GotKernel(u)
        /\ Target(handles[th[t].archive].file_path)
             = Target(handles[th[u].archive].file_path)
        /\ th[t].binary = th[u].binary /\ th[t].arch = th[u].arch)
       => OutcomeOf(t) = OutcomeOf(u)

W_C16 ==
  \E t, u \in Threads :
    /\ GotKernel(t) /\ GotKernel(u)
    /\ th[t].archive # th[u].archive
    /\ handles[th[t].archive].file_path = PathA
    /\ handles[th[u].archive].file_path = PathA
    /\ th[t].binary = "bin1" /\ th[t].arch = "g1"
    /\ th[u].binary = "bin1" /\ th[u].arch = "g1"
    /\ OutcomeOf(u) = [err |-> KPACK_SUCCESS, size |-> 2, bytes |-> <<11, 12>>]

\* The archive at path is valid: kpack_open accepts it, and every entry of
\* its TOC names a payload of the layout that lies inside the file and has
\* original_size bytes (the blob itself, or what its Zstd frame decodes to).
WellFormed(path) ==
  /\ Opens(path)
  /\ LET a == kpack_open(path).archive
         file_size == Len(FS[Target(path)].bytes)
     IN \A binary \in DOMAIN a.toc : \A arch \in DOMAIN a.toc[binary] :
          LET km == a.toc[binary][arch]
              blob == a.blobs[km.ordinal + 1]
              frame == a.zstd_frames[km.ordinal + 1]
              compressed == BytesAt(a.zstd_blob, frame.offset_in_blob,
                                    frame.compressed_size)
          IN IF a.compression_scheme = KPACK_COMPRESSION_NOOP
             THEN /\ km.ordinal < Len(a.blobs)
                  /\ blob.offset + blob.size <= file_size
                  /\ blob.size = km.original_size
             ELSE /\ km.ordinal < Len(a.zstd_frames)
                  /\ compressed \in DOMAIN ZstdTable
                  /\ Len(ZstdTable[compressed]) = km.original_size

\* C17: on a valid archive, with one call at a time, kpack_get_kernel on an
\* entry of the TOC succeeds with exactly original_size bytes, under the
\* none and the zstd-per-kernel scheme; with a binary or an architecture
\* that the TOC does not have it returns KERNEL_NOT_FOUND.
T_C17 ==
  \A t \in Threads :
    (GotKernel(t) /\ WellFormed(handles[th[t].archive].file_path)) =>
      LET a == handles[th[t].archive]
          o == OutcomeOf(t)
      IN IF th[t].binary \in DOMAIN a.toc /\ th[t].arch \in DOMAIN a.toc[th[t].binary]
         THEN /\ o.err = KPACK_SUCCESS
              /\ o.size = a.toc[th[t].binary][th[t].arch].original_size
              /\ Len(o.bytes) = o.size
         ELSE o.err = KPACK_ERROR_KERNEL_NOT_FOUND

W_C17 ==
  \E t, u \in Threads :
    /\ GotKernel(t) /\ GotKernel(u)
    /\ handles[th[t].archive].file_path = PathZ /\ WellFormed(PathZ)
    /\ th[t].binary = "bin1" /\ th[t].arch = "g1"
    /\ OutcomeOf(t) = [err |-> KPACK_SUCCESS, size |-> 2, bytes |-> <<31, 32>>]
    /\ handles[th[u].archive].file_path = PathA /\ WellFormed(PathA)
    /\ th[u].binary = "bin2" /\ th[u].arch = "g1"
    /\ th[u].ret = KPACK_ERROR_KERNEL_NOT_FOUND

\* Thread t has made a kpack_open call with both pointers, and it has
\* returned.
Opened(t) ==
  th[t].op = "kpack_open" /\ th[t].pc = "idle" /\ th[t].ret # "none" /\ th[t].req.nulls = {}

\* The fields of the header of a file.
MagicOf(bytes) == SubSeq(bytes, 1, KPACK_MAGIC_SIZE)
VersionOf(bytes) == FromLE(SubSeq(bytes, KPACK_MAGIC_SIZE + 1, 8))
TocOffsetOf(bytes) == FromLE(SubSeq(bytes, 9, HEADER_SIZE))

\* C18: kpack_open on a file gives a handle only when the file has the 16
\* bytes of the header, the magic KPAK, version 1 and a TOC offset below
\* its size; a file that fails one of these gets the error of the first
\* that fails, in this order: header or magic INVALID_FORMAT, version
\* UNSUPPORTED_VERSION, TOC offset INVALID_FORMAT.  Every handle has
\* version 1.
T_C18 ==
  /\ \A t \in Threads :
       (Opened(t) /\ file_exists(th[t].req.path)) =>
         LET bytes == FS[Target(th[t].req.path)].bytes
         IN IF Len(bytes) < HEADER_SIZE \/ MagicOf(bytes) # KPACK_MAGIC
              THEN th[t].ret = KPACK_ERROR_INVALID_FORMAT
            ELSE IF VersionOf(bytes) # KPACK_CURRENT_VERSION
              THEN th[t].ret = KPACK_ERROR_UNSUPPORTED_VERSION
            ELSE IF TocOffsetOf(bytes) >= Len(bytes)
              THEN th[t].ret = KPACK_ERROR_INVALID_FORMAT
            ELSE th[t].ret = KPACK_SUCCESS => th[t].archive \in DOMAIN handles
  /\ \A t \in Threads :
       (Opened(t) /\ th[t].ret # KPACK_SUCCESS) => th[t].archive = NoHandle
  /\ \A h \in DOMAIN handles :
       LET bytes == FS[Target(handles[h].file_path)].bytes
       IN /\ handles[h].version = KPACK_CURRENT_VERSION
          /\ Len(bytes) >= HEADER_SIZE /\ MagicOf(bytes) = KPACK_MAGIC
          /\ VersionOf(bytes) = KPACK_CURRENT_VERSION
          /\ TocOffsetOf(bytes) < Len(bytes)

W_C18 ==
  /\ \E t \in Threads :
       /\ Opened(t) /\ th[t].req.path = PathCV
       /\ th[t].ret = KPACK_ERROR_INVALID_FORMAT
  /\ Len(handles) = 1 /\ handles[1].open /\ handles[1].file_path = PathZ

\* The metadata is a map with a string kernel_name and an array
\* kpack_search_paths that has a string among its elements.
GoodMeta(obj) ==
  /\ obj.type = "MAP"
  /\ \E i \in DOMAIN obj.v :
       /\ obj.v[i].key = MStr("kernel_name") /\ obj.v[i].val.type = "STR"
       /\ \A j \in 1..(i - 1) : obj.v[j].key # MStr("kernel_name")
  /\ \E i \in DOMAIN obj.v :
       /\ obj.v[i].key = MStr("kpack_search_paths") /\ obj.v[i].val.type = "ARRAY"
       /\ \A j \in 1..(i - 1) : obj.v[j].key # MStr("kpack_search_paths")
       /\ \E k \in DOMAIN obj.v[i].val.v : obj.v[i].val.v[k].type = "STR"

\* The step is a kpack_load_code_object call by t, with valid arguments on an
\* enabled cache, whose metadata is not good.
BadMetaCall(t) ==
  /\ th[t].pc = "idle" /\ th'[t] # th[t] /\ th'[t].op = "load"
  /\ ValidArgs(th'[t].req) /\ ~cache.disabled
  /\ ~GoodMeta(th'[t].req.hipk_metadata)

\* C19: a load that gets past the argument and the disabled check returns
\* INVALID_METADATA exactly when its metadata is not a map with a string
\* kernel_name and an array kpack_search_paths holding a string; it then
\* returns in the step of the call, with no search path built, no archive
\* opened or cached and nothing fetched.
T_C19 ==
  /\ [](\A t \in Threads :
          (Done(t) /\ ValidArgs(th[t].req)
             /\ th[t].ret # KPACK_ERROR_NOT_IMPLEMENTED) =>
            /\ th[t].ret = KPACK_ERROR_INVALID_METADATA
                  <=> ~GoodMeta(th[t].req.hipk_metadata)
            /\ th[t].ret = KPACK_ERROR_INVALID_METADATA =>
                  /\ th[t].search_paths = <<>> /\ th[t].valid = <<>>
                  /\ th[t].fetches = 0 /\ th[t].out = th[t].req.out)
  /\ [][\A t \in Threads :
          BadMetaCall(t) =>
            /\ th'[t].pc = "idle"
            /\ th'[t].ret = KPACK_ERROR_INVALID_METADATA
            /\ UNCHANGED <<cache, handles>>]_vars

W_C19 ==
  /\ cache.state = "live" /\ cache.env_path_override = <<PathA>>
  /\ handles = <<>> /\ cache.archives = <<>>
  /\ \E t, u \in Threads :
       /\ Done(t) /\ th[t].req = ReqBins
       /\ th[t].ret = KPACK_ERROR_INVALID_METADATA
       /\ Done(u) /\ th[u].req = ReqRootInv
       /\ th[u].ret = KPACK_ERROR_INVALID_METADATA

\* The pointer arguments each public function requires.
RequiredPtrs ==
  [kpack_open |-> {"path", "archive"},
   kpack_get_architecture_count |-> {"archive", "count"},
   kpack_get_architecture |-> {"archive", "arch"},
   kpack_get_binary_count |-> {"archive", "count"},
   kpack_get_binary |-> {"archive", "binary"},
   kpack_get_kernel |-> {"archive", "binary_name", "arch", "kernel_data", "kernel_size"},
   kpack_cache_create |-> {"cache"},
   load |-> {"cache", "hipk_metadata", "binary_path", "arch_list",
             "code_object_out", "code_object_size_out"},
   kpack_enumerate_architectures |-> {"archive_path", "callback"},
   kpack_discover_binary_path |-> {"address_in_binary", "path_out"}]
VoidOps ==
  {"kpack_close", "kpack_cache_destroy", "kpack_free_kernel", "kpack_free_code_object"}

\* The step is a call by t of the function op.
CallOf(t, op) == th[t].pc = "idle" /\ th'[t] # th[t] /\ th'[t].op = op

\* The call has a null required pointer, arch_count 0 or path_out_size 0.
NullArgs(op, req) ==
  \/ req.nulls \cap RequiredPtrs[op] # {}
  \/ op = "load" /\ req.arch_count = 0
  \/ op = "kpack_discover_binary_path" /\ req.size = 0

\* C20: a call of a public function with a null required pointer, with
\* arch_count 0 or with path_out_size 0 returns INVALID_ARGUMENT in the step
\* that enters it, opens no archive, leaves the cache and the handles as
\* they are and writes no output; kpack_close, kpack_cache_destroy,
\* kpack_free_kernel and kpack_free_code_object on null change nothing.
T_C20 ==
  [][\A t \in Threads :
       /\ \A op \in DOMAIN RequiredPtrs :
            (CallOf(t, op) /\ NullArgs(op, th'[t].req)) =>
              /\ th'[t].pc = "idle"
              /\ th'[t].ret = KPACK_ERROR_INVALID_ARGUMENT
              /\ th'[t].out = (IF op = "load" THEN th'[t].req.out ELSE OutJunk)
              /\ th'[t].archive = NoHandle /\ th'[t].search_paths = <<>>
              /\ th'[t].served = <<>> /\ th'[t].bufs = th[t].bufs
              /\ UNCHANGED <<env, cache, handles>>
       /\ \A op \in VoidOps :
            (CallOf(t, op) /\ th'[t].req.nulls # {}) =>
              /\ th'[t].pc = "idle" /\ th'[t].bufs = th[t].bufs
              /\ UNCHANGED <<env, cache, handles>>]_vars

W_C20 ==
  /\ cache.state = "live" /\ Len(handles) = 2
  /\ handles[1].open /\ handles[2].open
  /\ \E t \in Threads :
       /\ th[t].op = "load" /\ th[t].pc = "idle"
       /\ th[t].req.nulls = {"code_object_size_out"}
       /\ th[t].ret = KPACK_ERROR_INVALID_ARGUMENT
       /\ th[t].out = OutJunk

\* Thread t has made a kpack_discover_binary_path call with the required
\* arguments, and it has returned.
Discover(t) ==
  /\ th[t].op = "kpack_discover_binary_path" /\ th[t].pc = "idle"
  /\ th[t].req.nulls \cap {"address_in_binary", "path_out"} = {}
  /\ th[t].req.size > 0

\* The lines of the process map that hold the address and name a file.
Matching(address) ==
  {i \in DOMAIN ProcMaps :
     /\ ProcMaps[i].low <= address /\ address < ProcMaps[i].high
     /\ ProcMaps[i].pathname # <<>> /\ ProcMaps[i].pathname[1] # "["}

\* C21: kpack_discover_binary_path answers from the first line of the
\* process map that holds the address and names a file: the pathname goes to
\* the buffer and offset_out is file_offset + (address - lo), or the call
\* returns INVALID_ARGUMENT when the pathname and its terminator do not fit;
\* with no such line it returns PATH_DISCOVERY_FAILED.
T_C21 ==
  \A t \in Threads :
    Discover(t) =>
      LET address == th[t].req.index
          M == Matching(address)
          line == ProcMaps[Least(M)]
      IN IF M = {} THEN th[t].ret = KPACK_ERROR_PATH_DISCOVERY_FAILED
         ELSE IF Len(line.pathname) + 1 > th[t].req.size
           THEN /\ th[t].ret = KPACK_ERROR_INVALID_ARGUMENT
                /\ th[t].search_paths = <<>> /\ th[t].out = OutJunk
         ELSE /\ th[t].ret = KPACK_SUCCESS
              /\ th[t].search_paths = <<line.pathname>>
              /\ th[t].out.size =
                   IF "offset_out" \in th[t].req.nulls THEN OutJunk.size
                   ELSE line.offset + (address - line.low)

W_C21 ==
  \E t \in Threads :
    /\ Discover(t) /\ th[t].req.index = 15 /\ th[t].req.size = 3
    /\ th[t].req.nulls = {}
    /\ th[t].ret = KPACK_SUCCESS /\ th[t].search_paths = <<<<"/", "so">>>>
    /\ th[t].out.size = 5

\* Thread t has made a kpack_enumerate_architectures call with both
\* pointers, and it has returned.
Enumerated(t) ==
  /\ th[t].op = "kpack_enumerate_architectures" /\ th[t].pc = "idle"
  /\ th[t].req.nulls = {}

\* C22: kpack_enumerate_architectures on an archive that opens gives the
\* callback the strings of gfx_arches in order, one call each, makes no call
\* after the first answer false, returns SUCCESS whether the callback
\* stopped it or not, and has closed the archive when it returns; the
\* archive is open for as long as the enumeration runs.  When the open
\* fails, its error is returned and the callback is not called.
T_C22 ==
  \A t \in Threads :
    /\ Enumerated(t) =>
         IF Opens(th[t].req.path)
         THEN LET names == handles[th[t].archive].gfx_arches
                  n == Len(th[t].served)
              IN /\ th[t].ret = KPACK_SUCCESS
                 /\ handles[th[t].archive].file_path = th[t].req.path
                 /\ ~handles[th[t].archive].open
                 /\ n <= Len(names) /\ th[t].served = SubSeq(names, 1, n)
                 /\ Len(th[t].valid) = n
                 /\ \A k \in 1..(n - 1) : th[t].valid[k]
                 /\ n < Len(names) => (n >= 1 /\ ~th[t].valid[n])
         ELSE /\ th[t].ret = kpack_open(th[t].req.path).err
              /\ th[t].archive = NoHandle /\ th[t].served = <<>>
    /\ th[t].pc \in {"enum_cb", "enum_close"} => handles[th[t].archive].open

W_C22 ==
  \E t \in Threads :
    /\ Enumerated(t) /\ th[t].req.path = PathA
    /\ th[t].ret = KPACK_SUCCESS
    /\ th[t].served = <<"g1">> /\ th[t].valid = <<FALSE>>
    /\ ~handles[th[t].archive].open

\* C23: a thread that is inside kpack_get_kernel does not hold
\* archive_mutex; the mutex is held only by a thread in the path walk or in
\* the map lookup for one architecture.
T_C23 ==
  \A t \in Threads :
    /\ th[t].pc \in GkPcs => cache.archive_mutex # t
    /\ cache.archive_mutex = t => th[t].pc \in {"walk", "find"}

W_C23 ==
  \E t, u \in Threads :
    /\ t # u
    /\ th[t].op = "load" /\ th[t].pc = "gk_read"
    /\ th[u].pc = "find" /\ cache.archive_mutex = u

\* C24: whenever archive_mutex is free, the archive map and the
\* architecture-set map have the same keys, and the set of every key is
\* exactly the set of the strings of gfx_arches of the archive cached under
\* that key.
T_C24 ==
  cache.archive_mutex = NoThread =>
    /\ DOMAIN cache.archives = DOMAIN cache.archive_archs
    /\ \A p \in DOMAIN cache.archives :
         LET names == handles[cache.archives[p]].gfx_arches
         IN cache.archive_archs[p] = {names[k] : k \in DOMAIN names}

W_C24 ==
  /\ cache.state = "live" /\ cache.archive_mutex = NoThread
  /\ DOMAIN cache.archives = {PathA, PathB}
  /\ cache.archive_archs[PathB] = {"g1", "g3"}
  /\ cache.archive_archs[PathA] = {"g1", "g2"}
  /\ \E t \in Threads : th[t].pc \in GkPcs


\* The TOC has what its declared compression scheme requires: a string
\* compression_scheme that is none or zstd-per-kernel; for none an array
\* blobs of maps with integers offset and size; for zstd-per-kernel integers
\* zstd_offset and zstd_size.
RequiredFields(map) ==
  LET sv == find_key(map, "compression_scheme")
      bv == find_key(map, "blobs")
  IN /\ sv.type = "STR"
     /\ \/ /\ sv.v = "none"
           /\ bv.type = "ARRAY"
           /\ \A i \in DOMAIN bv.v :
                /\ bv.v[i].type = "MAP"
                /\ IsInt(find_key(bv.v[i].v, "offset"))
                /\ IsInt(find_key(bv.v[i].v, "size"))
        \/ /\ sv.v = "zstd-per-kernel"
           /\ IsInt(find_key(map, "zstd_offset"))
           /\ IsInt(find_key(map, "zstd_size"))

\* The file of the path passes validate_header and its TOC region is a
\* MessagePack map.
TocReached(path) ==
  /\ file_exists(path)
  /\ validate_header(FS[Target(path)].bytes).err = KPACK_SUCCESS
  /\ FS[Target(path)].toc_obj.type = "MAP"

\* C25: kpack_open fails with INVALID_FORMAT when the TOC lacks, or gives a
\* wrong-typed value for, a field its declared compression scheme requires
\* (compression_scheme itself, blobs with offset and size for none,
\* zstd_offset and zstd_size for zstd-per-kernel), and no handle is
\* returned for such a TOC.
Claim_C25 ==
  /\ \A t \in Threads :
       (Opened(t) /\ TocReached(th[t].req.path)
          /\ ~RequiredFields(FS[Target(th[t].req.path)].toc_obj.v)) =>
         th[t].ret = KPACK_ERROR_INVALID_FORMAT
  /\ \A h \in DOMAIN handles :
       RequiredFields(FS[Target(handles[h].file_path)].toc_obj.v)


\* The size of the file behind an archive handle.
FileSizeOf(a) == Len(FS[Target(a.file_path)].bytes)

\* C26: every handle of the none scheme has every ordinal of its TOC below
\* the number of its blobs and every blob inside the file (offset + size <=
\* file size), and a kpack_get_kernel that has sought to a blob reads
\* inside the file.
Claim_C26 ==
  /\ \A h \in DOMAIN handles :
       handles[h].compression_scheme = KPACK_COMPRESSION_NOOP =>
         /\ \A b \in DOMAIN handles[h].toc : \A g \in DOMAIN handles[h].toc[b] :
              handles[h].toc[b][g].ordinal < Len(handles[h].blobs)
         /\ \A k \in DOMAIN handles[h].blobs :
              handles[h].blobs[k].offset + handles[h].blobs[k].size
                <= FileSizeOf(handles[h])
  /\ \A t \in Threads :
       (th[t].pc = "gk_read"
          /\ handles[th[t].archive].compression_scheme = KPACK_COMPRESSION_NOOP) =>
         handles[th[t].archive].file_pos
             + handles[th[t].archive].blobs[th[t].want + 1].size
           <= FileSizeOf(handles[th[t].archive])


RECURSIVE FrameEnd(_, _)
\* The offset in the blob just after frame k (after the count prefix for
\* k = 0), each frame being a 4-byte length prefix and its payload.
FrameEnd(blob, k) ==
  IF k = 0 THEN U32
  ELSE LET p == FrameEnd(blob, k - 1)
       IN p + U32 + FromLE(BytesAt(blob, p, U32))

\* What kpack_open answers on a zstd-per-kernel archive whose TOC gives
\* integers zstd_offset and zstd_size, when a blob region that runs past the
\* end of the file is answered with past_eof.
ZstdOpenRule(past_eof) ==
  /\ \A t \in Threads :
       LET path == th[t].req.path
           map == FS[Target(path)].toc_obj.v
           bytes == FS[Target(path)].bytes
           zo == find_key(map, "zstd_offset").v
           zs == find_key(map, "zstd_size").v
           blob == BytesAt(bytes, zo, zs)
           count == FromLE(BytesAt(blob, 0, U32))
       IN (Opened(t) /\ TocReached(path) /\ RequiredFields(map)
             /\ find_key(map, "compression_scheme").v = "zstd-per-kernel") =>
            IF zo + zs > Len(bytes) THEN th[t].ret = past_eof
            ELSE IF \/ zs < U32
                    \/ count > MAX_KERNELS
                    \/ \E k \in 1..count : FrameEnd(blob, k) > zs
              THEN th[t].ret = KPACK_ERROR_INVALID_FORMAT
            ELSE th[t].ret = KPACK_SUCCESS
  /\ \A h \in DOMAIN handles :
       handles[h].compression_scheme = KPACK_COMPRESSION_ZSTD_PER_KERNEL =>
         LET a == handles[h]
             frames == a.zstd_frames
         IN /\ a.zstd_offset + a.zstd_size <= FileSizeOf(a)
            /\ Len(frames) <= MAX_KERNELS
            /\ \A k \in DOMAIN frames :
                 /\ frames[k].offset_in_blob >= 2 * U32
                 /\ frames[k].offset_in_blob + frames[k].compressed_size <= a.zstd_size
                 /\ k > 1 =>
                      frames[k - 1].offset_in_blob + frames[k - 1].compressed_size + U32
                        <= frames[k].offset_in_blob

Stored == {cache.archives[p] : p \in DOMAIN cache.archives}

\* While the cache lives and archive_mutex is free, the archive map holds
\* every handle ever opened, each under one key.
AllStored ==
  (cache.state = "live" /\ cache.archive_mutex = NoThread) =>
    /\ Stored = DOMAIN handles
    /\ Cardinality(DOMAIN cache.archives) = Len(handles)
    /\ \A h \in DOMAIN handles : handles[h].open

\* A step that opens archives adds one entry per new handle and leaves the
\* entries of the map as they are.
NeverOverwritten ==
  Len(handles') > Len(handles) =>
    /\ \A p \in DOMAIN cache.archives :
         p \in DOMAIN cache'.archives /\ cache'.archives[p] = cache.archives[p]
    /\ {cache'.archives[p] : p \in DOMAIN cache'.archives \ DOMAIN cache.archives}
         = (Len(handles) + 1)..Len(handles')
    /\ Cardinality(DOMAIN cache'.archives \ DOMAIN cache.archives)
         = Len(handles') - Len(handles)
    /\ cache'.archive_mutex = NoThread

\* C28: every handle kpack_open returns inside kpack_load_code_object is in
\* the archive map when archive_mutex is released, whether the load then
\* succeeds or fails; an insertion never overwrites an entry; the map has as
\* many entries as there were successful opens, so kpack_cache_destroy
\* closes every handle.
T_C28 == []AllStored /\ [][NeverOverwritten]_vars

\* Two loads have failed after the walk, one on the symbolic link to the
\* archive the other has opened; the map holds both archives opened.
W_C28 ==
  /\ cache.state = "live" /\ cache.archive_mutex = NoThread
  /\ Len(handles) = 2 /\ Stored = {1, 2}
  /\ \E t \in Threads : Done(t) /\ th[t].ret = KPACK_ERROR_ARCH_NOT_FOUND
  /\ \E t \in Threads : Done(t) /\ th[t].req = ReqL


\* Every call of kpack_load_code_object returns.
Terminates == \A t \in Threads : (th[t].pc # "idle") ~> (th[t].pc = "idle")

\* A thread outside the library does not hold archive_mutex, and a thread
\* inside kpack_get_kernel, where the lock of the archive handle belongs,
\* does not hold it either.
ReleasedOnExit ==
  \A t \in Threads :
    /\ th[t].pc = "idle" => cache.archive_mutex # t
    /\ th[t].pc \in GkPcs => cache.archive_mutex # t

\* C29: with threads calling kpack_load_code_object on one cache, every
\* call returns in the end; every exit path leaves archive_mutex released;
\* the lock of the cache is never held across the work on an archive
\* handle.
T_C29 == Terminates /\ []ReleasedOnExit

\* A thread waits for archive_mutex, which another thread holds in the
\* lookup of its second architecture.
W_C29 ==
  \E t, u \in Threads :
    /\ t # u
    /\ th[t].pc = "walk_lock"
    /\ th[u].pc = "find" /\ th[u].i = 2 /\ cache.archive_mutex = u


\* C30: when a kpack_get_kernel inside a load returns SUCCESS, the load
\* returns at once (it makes no further fetch), with SUCCESS and the buffer
\* and the size of that fetch, also for a kernel of length zero; it is never
\* answered with ARCH_NOT_FOUND.
Claim_C30 ==
  \A t \in Threads :
    (th[t].op = "load" /\ th[t].served # <<>>) =>
      /\ Done(t)
      /\ th[t].ret = KPACK_SUCCESS
      /\ th[t].out = [ptr |-> th[t].kernel_data, size |-> th[t].kernel_size]

====
